---------------------------- MODULE Spec2Model ----------------------------
(***************************************************************************)
(* A model of the fathom trading engine: the synchronous event bus         *)
(* (fathom/core/events.py), the order book and its fill simulator          *)
(* (fathom/core/orders.py), the paper adapter (fathom/adapters/paper.py),  *)
(* the graduation sniper (fathom/strategies/graduation_sniper.py), the     *)
(* backtest runner (fathom/backtest.py), the risk layer                    *)
(* (fathom/core/risk.py), the engine (fathom/core/engine.py), the trade    *)
(* journal (fathom/core/metrics.py) and the live adapters                  *)
(* (src/adapters/jupiter, src/adapters/pumpswap).                          *)
(*                                                                         *)
(* Each subsystem has its own specification over the shared variables:     *)
(*   SpecBus       the event bus, dispatching step by step                 *)
(*   SpecBook      the order book driven by submit/cancel/try_fill/ticks   *)
(*   SpecTrade     the sniper and the paper adapter wired on one bus       *)
(*   SpecTradeFew  the same, the sniper holding one position at most       *)
(*   SpecTradeAlone  the same with no other publisher of orders and a      *)
(*                 balance that pays for one position                      *)
(*   SpecBacktest  two executions of BacktestRunner.run on one input       *)
(*   SpecBreaker   the drawdown circuit breaker                            *)
(*   SpecExposure  the exposure tracker                                    *)
(*   SpecEngine    run(), the connect tasks, the signal handler, stop()    *)
(*   SpecScore     score_graduation over changing signals                  *)
(*   SpecSwap      the constant-product output of a PumpSwap pool          *)
(*   SpecFills     Order.record_fill and the average fill price            *)
(*   SpecJournal   the trade journal and its round trips                   *)
(*   SpecSubmit    the retry loop of the live adapters' submit_order       *)
(*   SpecTrail     trailing stop orders of the book under price ticks      *)
(* Amounts that are floats in the program are exact integers here.         *)
(***************************************************************************)

EXTENDS Integers, Sequences, FiniteSets, TLC

VARIABLES
    \* ---- EventBus ----
    handlers,      \* EventBus._handlers: kind -> list of handlers
    event_count,   \* EventBus._event_count
    error_count,   \* EventBus._error_count
    stack,         \* the activation records of publish (the Python call stack)
    log,           \* history: what the latest outermost publish did, in order
    failures,      \* history: handler invocations that raised
    nPublished,    \* history: outermost publish calls made so far
    \* ---- OrderBook, FillSimulator ----
    orders,          \* the Order objects, by order_id
    stored,          \* OrderBook._orders: the ids it holds
    active_ids,      \* OrderBook._active_ids
    trailing_peaks,  \* FillSimulator._trailing_peaks (0: no entry)
    ret,             \* history: the last order-book call and what it returned
    \* ---- GraduationSniper, PaperAdapter, their EventBus ----
    sniper,        \* the fields of the GraduationSniper
    paper,         \* the fields of the PaperAdapter
    tbus,          \* _event_count and _error_count of their EventBus
    published,     \* history: the events the latest outermost publish published
    clock,         \* time.time_ns(), in seconds
    \* ---- BacktestRunner: one input replayed by two executions of run() ----
    data,          \* BacktestRunner.data
    strategy,      \* which GraduationSniper the runner drives
    runs,          \* per execution: strategy, adapter, bus counters, clock, result
    cursor,        \* where run() is, in both executions
    replayed,      \* history: what run() has done to the adapter and the bus
    \* ---- DrawdownCircuitBreaker ----
    breaker,       \* _state, _peak_equity, _tripped_at, _trip_count
    mono,          \* time.monotonic(), in seconds
    bcall,         \* history: the last call on the breaker and what it returned
    \* ---- ExposureTracker ----
    tracker,       \* _equity and _positions
    cash,          \* history: initial equity, less every buy, plus every close
    ncalls,        \* history: calls made on the tracker
    \* ---- Engine ----
    engine,        \* _running, where run() is, the event loop, the components
    wiring,        \* which registered adapters, feeds and strategies raise
    elog,          \* history: what the engine and its components have done
    \* ---- score_graduation ----
    candidate,     \* the GraduationEvent being scored
    breakdown,     \* the ScoreBreakdown last returned
    prior,         \* history: the event and its breakdown before the last change
    nchanges,      \* history: changes made to the event
    \* ---- PumpSwapAdapter._calculate_output ----
    pool,          \* the reserves of the pool
    swap,          \* history: the last two calls and what they returned
    \* ---- Order.record_fill ----
    filling,       \* the Order that is being filled
    notional,      \* history: the sum of price * quantity over its fills
    \* ---- TradeJournal ----
    journal,       \* _trades, _round_trips, _open_buys, the equity
    jbefore,       \* history: the journal before the last call of record
    \* ---- JupiterAdapter, PumpSwapAdapter: submit_order ----
    live,          \* the adapter: its name and max_retries
    tasks,         \* the tasks of _execute_and_report, one per order intent
    lbus,          \* the ORDER_FILLED and ORDER_REJECTED events it published
    \* ---- FillSimulator: trailing stops ----
    tsim,          \* the book and the simulator: orders, ids, _trailing_peaks
    ticked         \* history: the prices ticked for each order while active

busVars == <<handlers, event_count, error_count, stack, log, failures, nPublished>>

bookVars == <<orders, stored, active_ids, trailing_peaks, ret>>

tradeVars == <<sniper, paper, tbus, published, clock>>

backtestVars == <<data, strategy, runs, cursor, replayed>>

breakerVars == <<breaker, mono, bcall>>

exposureVars == <<tracker, cash, ncalls>>

riskVars == <<breakerVars, exposureVars>>

engineVars == <<engine, wiring, elog>>

scoreVars == <<candidate, breakdown, prior, nchanges>>

swapVars == <<pool, swap>>

fillsVars == <<filling, notional>>

journalVars == <<journal, jbefore>>

submitVars == <<live, tasks, lbus>>

trailVars == <<tsim, ticked>>

vars == <<busVars, bookVars, tradeVars, backtestVars, riskVars, engineVars, scoreVars, swapVars, fillsVars, journalVars, submitVars, trailVars>>

\* What each subsystem leaves alone.
notBus == <<bookVars, tradeVars, backtestVars, riskVars, engineVars, scoreVars, swapVars, fillsVars, journalVars, submitVars, trailVars>>
notBook == <<busVars, tradeVars, backtestVars, riskVars, engineVars, scoreVars, swapVars, fillsVars, journalVars, submitVars, trailVars>>
notTrade == <<busVars, bookVars, backtestVars, riskVars, engineVars, scoreVars, swapVars, fillsVars, journalVars, submitVars, trailVars>>
notBacktest == <<busVars, bookVars, tradeVars, riskVars, engineVars, scoreVars, swapVars, fillsVars, journalVars, submitVars, trailVars>>
notBreaker == <<busVars, bookVars, tradeVars, backtestVars, exposureVars, engineVars, scoreVars, swapVars, fillsVars, journalVars, submitVars, trailVars>>
notExposure == <<busVars, bookVars, tradeVars, backtestVars, breakerVars, engineVars, scoreVars, swapVars, fillsVars, journalVars, submitVars, trailVars>>
notEngine == <<busVars, bookVars, tradeVars, backtestVars, riskVars, scoreVars, swapVars, fillsVars, journalVars, submitVars, trailVars>>
notScore == <<busVars, bookVars, tradeVars, backtestVars, riskVars, engineVars, swapVars, fillsVars, journalVars, submitVars, trailVars>>
notSwap == <<busVars, bookVars, tradeVars, backtestVars, riskVars, engineVars, scoreVars, fillsVars, journalVars, submitVars, trailVars>>
notFills == <<busVars, bookVars, tradeVars, backtestVars, riskVars, engineVars, scoreVars, swapVars, journalVars, submitVars, trailVars>>
notJournal == <<busVars, bookVars, tradeVars, backtestVars, riskVars, engineVars, scoreVars, swapVars, fillsVars, submitVars, trailVars>>
notSubmit == <<busVars, bookVars, tradeVars, backtestVars, riskVars, engineVars, scoreVars, swapVars, fillsVars, journalVars, trailVars>>
notTrail == <<busVars, bookVars, tradeVars, backtestVars, riskVars, engineVars, scoreVars, swapVars, fillsVars, journalVars, submitVars>>

-----------------------------------------------------------------------------
(* Bounds of the model. *)

MaxSubs == 3        \* subscriptions alive at once, over all kinds
MaxPublish == 1     \* outermost publish calls
MaxActive == 2      \* length of the order book's active-id list
MaxFills == 2       \* fills recorded on one order
MaxEvents == 7      \* events the bus of the strategy and the adapter dispatches
MaxClock == 600     \* seconds the clock runs
ClockStep == 600    \* seconds between two readings of the clock
MaxRecords == 2     \* records of the input of a backtest
MaxTrips == 2       \* trips of the circuit breaker
MaxMono == 600      \* seconds the monotonic clock runs
MaxQuantity == 4    \* tokens of one position of the exposure tracker
MaxCalls == 5       \* calls made on the exposure tracker
MaxHeartbeats == 2  \* heartbeats of an engine nobody stops
MaxFeedEvents == 1  \* price updates a feed publishes
MaxChanges == 2     \* changes made to the signals of a scored event
MaxQuotes == 3      \* outputs computed on one pool
MaxTrades == 4      \* trades recorded in the journal
MaxIntents == 2     \* order intents handed to a live adapter
MaxRetries == 3     \* max_retries of a live adapter
MaxTicks == 4       \* price ticks given to the fill simulator

-----------------------------------------------------------------------------
(* EventBus                                                                *)

\* Three of the EventType members: two ordinary kinds and ERROR.
Kinds == {"HEARTBEAT", "SIGNAL", "ERROR"}

\* The handlers that callers register, named by what their body does:
\*   a, b   return normally
\*   bad    raises
\*   nest   publishes a SIGNAL event on the same bus, then returns
\*   once   unsubscribes itself from the kind of the event it got, then returns
Handlers == {"a", "b", "bad", "nest", "once"}

Behaviour(h) ==
    CASE h = "bad"  -> "raise"
      [] h = "nest" -> "publish"
      [] h = "once" -> "unsubscribe"
      [] OTHER      -> "return"

PubKind == "SIGNAL"

\* list.remove(x): drops the first occurrence of x.
RECURSIVE RemoveFirst(_, _)
RemoveFirst(s, x) ==
    IF s = <<>> THEN <<>>
    ELSE IF Head(s) = x THEN Tail(s)
    ELSE <<Head(s)>> \o RemoveFirst(Tail(s), x)

InSeq(s, x) == \E i \in 1..Len(s) : s[i] = x

TotalSubs == Len(handlers["HEARTBEAT"]) + Len(handlers["SIGNAL"]) + Len(handlers["ERROR"])

\* A new activation of publish(event): the for loop has fetched nothing yet.
\* parent (the event whose handler made this call, 0 for none) is history.
NewFrame(kind, ev, parent) ==
    [kind |-> kind, ev |-> ev, idx |-> 0, phase |-> "loop", cur |-> "none",
     parent |-> parent]

\* A call pushes its activation on top of the caller's (the top is the end).
PushFrameDeferred(stk, f) == <<f>> \o stk
PushFrame(stk, f) == Append(stk, f)

Top == stack[Len(stack)]
Below == SubSeq(stack, 1, Len(stack) - 1)
SetTop(f) == [stack EXCEPT ![Len(stack)] = f]

\* One entry of the history. t is what happened:
\*   publish  publish(ev) was entered; hs is the kind's handler list then, by
\*            the event whose handler (or except clause) called it
\*   start    handler h was called with ev
\*   end      handler h returned
\*   fail     handler h raised
\*   unsub    the handler list of the kind lost h
\*   return   publish(ev) returned
Entry(t, kind, ev, h, by, hs) ==
    [t |-> t, kind |-> kind, ev |-> ev, h |-> h, by |-> by, hs |-> hs]

BusStart ==
    /\ handlers = [k \in Kinds |-> <<>>]
    /\ event_count = 0
    /\ error_count = 0
    /\ stack = <<>>
    /\ log = <<>>
    /\ failures = 0
    /\ nPublished = 0

\* No bus.
BusIdle ==
    /\ handlers = <<>>
    /\ event_count = 0
    /\ error_count = 0
    /\ stack = <<>>
    /\ log = <<>>
    /\ failures = 0
    /\ nPublished = 0

\* The inputs are restricted so that every dispatch is finite: nest publishes
\* SIGNAL and is registered for HEARTBEAT only. once is registered for SIGNAL.
MaySubscribe(k, h) ==
    /\ Behaviour(h) = "publish" => k = "HEARTBEAT"
    /\ Behaviour(h) = "unsubscribe" => k = "SIGNAL"

\* subscribe(event_type, handler), called between dispatches.
Subscribe(k, h) ==
    /\ stack = <<>>
    /\ nPublished < MaxPublish
    /\ TotalSubs < MaxSubs
    /\ MaySubscribe(k, h)
    /\ handlers' = [handlers EXCEPT ![k] = Append(@, h)]
    /\ log' = <<>>
    /\ UNCHANGED <<event_count, error_count, stack, failures, nPublished>>
    /\ UNCHANGED notBus

\* unsubscribe(event_type, handler), called between dispatches.
Unsubscribe(k, h) ==
    /\ stack = <<>>
    /\ nPublished < MaxPublish
    /\ InSeq(handlers[k], h)
    /\ handlers' = [handlers EXCEPT ![k] = RemoveFirst(@, h)]
    /\ log' = <<>>
    /\ UNCHANGED <<event_count, error_count, stack, failures, nPublished>>
    /\ UNCHANGED notBus

\* publish(event) called from outside any handler: count the event, read the
\* kind's handler list and enter the for loop.
Publish(k) ==
    /\ stack = <<>>
    /\ nPublished < MaxPublish
    /\ nPublished' = nPublished + 1
    /\ event_count' = event_count + 1
    /\ stack' = PushFrame(stack, NewFrame(k, event_count + 1, 0))
    /\ log' = <<Entry("publish", k, event_count + 1, "none", 0, handlers[k])>>
    /\ UNCHANGED <<handlers, error_count, failures>>
    /\ UNCHANGED notBus

\* The for loop can fetch: the list iterator's index is inside the live list.
CanFetch == /\ stack # <<>>
            /\ Top.phase = "loop"
            /\ Top.idx < Len(handlers[Top.kind])

\* The handler the list iterator hands out next.
FetchedReversed == handlers[Top.kind][Len(handlers[Top.kind]) - Top.idx]
Fetched == handlers[Top.kind][Top.idx + 1]

\* The frame once the iterator has handed out the next handler.
FetchFrame == [Top EXCEPT !.idx = @ + 1, !.cur = Fetched]

\* handler(event) for a handler that returns normally.
HandlerReturns ==
    /\ CanFetch
    /\ Behaviour(Fetched) = "return"
    /\ stack' = SetTop(FetchFrame)
    /\ log' = log \o <<Entry("start", Top.kind, Top.ev, Fetched, 0, <<>>),
                       Entry("end", Top.kind, Top.ev, Fetched, 0, <<>>)>>
    /\ UNCHANGED <<handlers, event_count, error_count, failures, nPublished>>
    /\ UNCHANGED notBus

\* The iterator index the for loop goes on with after the except clause
\* (n is the length of the list): the exception is swallowed.
AbortLoop(idx, n) == n
AfterExcept(idx, n) == idx

\* Whether the except clause publishes an error event for a failure while
\* dispatching an event of this kind.
RepublishesAlways(kind) == TRUE
Republishes(kind) == kind # "ERROR"

\* handler(event) raises: the except clause counts the error and, unless the
\* event is itself an error event, publishes an error event (a nested publish).
HandlerRaises ==
    /\ CanFetch
    /\ Behaviour(Fetched) = "raise"
    /\ error_count' = error_count + 1
    /\ failures' = failures + 1
    /\ LET f == [FetchFrame EXCEPT
                    !.idx = AfterExcept(@, Len(handlers[Top.kind]))]
           seen == <<Entry("start", Top.kind, Top.ev, Fetched, 0, <<>>),
                     Entry("fail", Top.kind, Top.ev, Fetched, 0, <<>>)>>
       IN IF Republishes(Top.kind)
          THEN /\ event_count' = event_count + 1
               /\ stack' = PushFrame(SetTop([f EXCEPT !.phase = "inexcept"]),
                                     NewFrame("ERROR", event_count + 1, Top.ev))
               /\ log' = log \o seen \o
                         <<Entry("publish", "ERROR", event_count + 1, Fetched,
                                 Top.ev, handlers["ERROR"])>>
          ELSE /\ stack' = SetTop(f)
               /\ log' = log \o seen
               /\ UNCHANGED event_count
    /\ UNCHANGED <<handlers, nPublished>>
    /\ UNCHANGED notBus

\* handler(event) for a handler whose body calls publish: the nested publish
\* is entered; the handler is suspended in it.
HandlerPublishes ==
    /\ CanFetch
    /\ Behaviour(Fetched) = "publish"
    /\ event_count' = event_count + 1
    /\ stack' = PushFrame(SetTop([FetchFrame EXCEPT !.phase = "inhandler"]),
                          NewFrame(PubKind, event_count + 1, Top.ev))
    /\ log' = log \o <<Entry("start", Top.kind, Top.ev, Fetched, 0, <<>>),
                       Entry("publish", PubKind, event_count + 1, Fetched,
                             Top.ev, handlers[PubKind])>>
    /\ UNCHANGED <<handlers, error_count, failures, nPublished>>
    /\ UNCHANGED notBus

\* handler(event) for a handler whose body unsubscribes itself from the
\* event's kind, while the for loop is iterating that very list.
HandlerUnsubscribes ==
    /\ CanFetch
    /\ Behaviour(Fetched) = "unsubscribe"
    /\ handlers' = [handlers EXCEPT ![Top.kind] = RemoveFirst(@, Fetched)]
    /\ stack' = SetTop(FetchFrame)
    /\ log' = log \o <<Entry("start", Top.kind, Top.ev, Fetched, 0, <<>>),
                       Entry("unsub", Top.kind, Top.ev, Fetched, 0, <<>>),
                       Entry("end", Top.kind, Top.ev, Fetched, 0, <<>>)>>
    /\ UNCHANGED <<event_count, error_count, failures, nPublished>>
    /\ UNCHANGED notBus

\* The nested publish has returned to the handler body (or to the except
\* clause) that called it; that handler invocation is now over.
NestedReturned ==
    /\ stack # <<>>
    /\ Top.phase \in {"inhandler", "inexcept"}
    /\ stack' = SetTop([Top EXCEPT !.phase = "loop"])
    /\ log' = IF Top.phase = "inhandler"
              THEN Append(log, Entry("end", Top.kind, Top.ev, Top.cur, 0, <<>>))
              ELSE log
    /\ UNCHANGED <<handlers, event_count, error_count, failures, nPublished>>
    /\ UNCHANGED notBus

\* The for loop is exhausted: publish returns to its caller.
PublishReturns ==
    /\ stack # <<>>
    /\ Top.phase = "loop"
    /\ Top.idx >= Len(handlers[Top.kind])
    /\ stack' = Below
    /\ log' = Append(log, Entry("return", Top.kind, Top.ev, "none", Top.parent, <<>>))
    /\ UNCHANGED <<handlers, event_count, error_count, failures, nPublished>>
    /\ UNCHANGED notBus

\* One step of the interpreter inside a dispatch.
Dispatch ==
    \/ HandlerReturns
    \/ HandlerRaises
    \/ HandlerPublishes
    \/ HandlerUnsubscribes
    \/ NestedReturned
    \/ PublishReturns

BusNext ==
    \/ \E k \in Kinds, h \in Handlers : Subscribe(k, h)
    \/ \E k \in Kinds, h \in Handlers : Unsubscribe(k, h)
    \/ \E k \in Kinds : Publish(k)
    \/ Dispatch

-----------------------------------------------------------------------------
(* Floating point.                                                         *)
(*                                                                         *)
(* Quantities are Python floats. A float keeps a fixed number of           *)
(* significant bits and every sum and difference is rounded to the nearest *)
(* float, ties to the even significand. The model keeps that rule with a   *)
(* short significand, over non-negative integers and their negations.      *)

\* Significant bits of a float (53 in the program).
FloatBits == 3

RECURSIVE BitLen(_)
BitLen(x) == IF x = 0 THEN 0 ELSE 1 + BitLen(x \div 2)

RECURSIVE Pow2(_)
Pow2(n) == IF n = 0 THEN 1 ELSE 2 * Pow2(n - 1)

\* x rounded to the nearest float, for x >= 0.
RoundNat(x) ==
    IF BitLen(x) <= FloatBits THEN x
    ELSE LET u == Pow2(BitLen(x) - FloatBits)
             q == x \div u
             r == x % u
         IN IF 2 * r > u \/ (2 * r = u /\ q % 2 = 1) THEN (q + 1) * u ELSE q * u

\* The float an arithmetic operation with the exact result x yields.
Fl(x) == IF x >= 0 THEN RoundNat(x) ELSE 0 - RoundNat(0 - x)

Min(x, y) == IF x <= y THEN x ELSE y
Max(x, y) == IF x >= y THEN x ELSE y

-----------------------------------------------------------------------------
(* Order, OrderBook, FillSimulator                                         *)

OrderIds == {"o1", "o2"}

ActiveStatuses == {"PENDING", "SUBMITTED", "ACCEPTED", "PARTIALLY_FILLED"}
TerminalStatuses == {"FILLED", "CANCELLED", "REJECTED", "EXPIRED"}
Statuses == ActiveStatuses \cup TerminalStatuses

\* The constructor arguments of an Order. limit_price and stop_price 0 stand
\* for None; trail_offset_pct is in hundredths (5 is the default 0.05).
Args(token, side, type, qty, limit, stop, trail, tif, expire, show) ==
    [token |-> token, side |-> side, order_type |-> type, quantity |-> qty,
     limit_price |-> limit, stop_price |-> stop, trail_offset_pct |-> trail,
     time_in_force |-> tif, expire_at_ns |-> expire, iceberg_show_qty |-> show]

\* Orders as the factory methods and the constructor build them: the first
\* six pass validate(), each of the others fails one of its checks.
OrderInputs ==
    { Args("T", "BUY",  "MARKET",        2,  0, 0,   5, "GTC", 0, 0),
      Args("T", "SELL", "MARKET",        28, 0, 0,   5, "GTC", 0, 0),
      Args("U", "BUY",  "LIMIT",         2,  2, 0,   5, "GTC", 0, 0),
      Args("T", "SELL", "STOP",          2,  0, 2,   5, "GTC", 0, 0),
      Args("T", "SELL", "TRAILING_STOP", 2,  0, 0,  50, "GTC", 0, 0),
      Args("T", "BUY",  "ICEBERG",       2,  0, 0,   5, "GTD", 9, 1),
      Args("T", "BUY",  "MARKET",        0,  0, 0,   5, "GTC", 0, 0),
      Args("",  "BUY",  "MARKET",        2,  0, 0,   5, "GTC", 0, 0),
      Args("T", "BUY",  "LIMIT",         2,  0, 0,   5, "GTC", 0, 0),
      Args("T", "SELL", "STOP_LIMIT",    2,  0, 0,   5, "GTC", 0, 0),
      Args("T", "SELL", "TRAILING_STOP", 2,  0, 0, 100, "GTC", 0, 0),
      Args("T", "BUY",  "MARKET",        2,  0, 0,   5, "GTD", 0, 0),
      Args("T", "BUY",  "ICEBERG",       2,  0, 0,   5, "GTC", 0, 2) }

\* Order(...): a new order is PENDING with nothing filled.
NewOrder(a) ==
    [token |-> a.token, side |-> a.side, order_type |-> a.order_type,
     quantity |-> a.quantity, limit_price |-> a.limit_price,
     stop_price |-> a.stop_price, trail_offset_pct |-> a.trail_offset_pct,
     time_in_force |-> a.time_in_force, expire_at_ns |-> a.expire_at_ns,
     iceberg_show_qty |-> a.iceberg_show_qty,
     status |-> "PENDING", filled_quantity |-> 0, avg_fill_price |-> 0,
     fills |-> <<>>]

\* The arguments the callers of try_fill and on_price pass.
FillQtys == {1, 6, 64}
FillPrices == {1}
Tokens == {"T", "U"}
TickPrices == {1, 3}

\* Order.is_active
IsActive(o) == o.status \in ActiveStatuses

\* Order.remaining_quantity
RemainingQuantity(o) == Max(Fl(o.quantity - o.filled_quantity), 0)

\* The status record_fill sets.
StatusAfterFillAlwaysFilled(filled, quantity) == "FILLED"
StatusAfterFill(filled, quantity) ==
    IF filled >= quantity THEN "FILLED" ELSE "PARTIALLY_FILLED"

\* avg_fill_price is held in units of 1/PriceGrid: a float of FloatBits
\* significant bits that is at least 1/4 is a whole number of them.
PriceGrid == 16

\* The float nearest to a / b, for a >= 0 and b > 0: the quotient is taken
\* with two more binary places, the second one set when there is a
\* remainder, and rounded from there.
DivFl(a, b) ==
    LET t == (4 * a) \div b
        sticky == IF (4 * a) % b # 0 /\ t % 2 = 0 THEN t + 1 ELSE t
    IN  RoundNat(sticky) \div 4

\* record_fill with the price of the fill as the average.
RecordFillLastPrice(o, price, qty) ==
    LET filled == Fl(o.filled_quantity + qty)
    IN [o EXCEPT !.filled_quantity = filled,
                 !.avg_fill_price = IF filled > 0 THEN price * PriceGrid ELSE @,
                 !.fills = Append(@, [price |-> price, quantity |-> qty]),
                 !.status = StatusAfterFill(filled, o.quantity)]

\* Order.record_fill (the Fill keeps its price and quantity here).
RecordFill(o, price, qty) ==
    LET prev_notional == Fl(o.avg_fill_price * o.filled_quantity)
        filled == Fl(o.filled_quantity + qty)
        total == Fl(prev_notional + Fl(price * qty) * PriceGrid)
    IN [o EXCEPT !.filled_quantity = filled,
                 !.avg_fill_price = IF filled > 0 THEN DivFl(total, filled) ELSE @,
                 !.fills = Append(@, [price |-> price, quantity |-> qty]),
                 !.status = StatusAfterFill(filled, o.quantity)]

\* Order.cancel
CancelOrder(o) == IF o.status \in ActiveStatuses
                  THEN [o EXCEPT !.status = "CANCELLED"]
                  ELSE o

\* Order.validate: the list of errors.
Validate(o) ==
    (IF o.quantity <= 0 THEN <<"quantity must be > 0">> ELSE <<>>)
    \o (IF o.token = "" THEN <<"token is required">> ELSE <<>>)
    \o (IF o.order_type \in {"LIMIT", "STOP_LIMIT"} /\ o.limit_price <= 0
        THEN <<"requires a positive limit_price">> ELSE <<>>)
    \o (IF o.order_type \in {"STOP", "STOP_LIMIT"} /\ o.stop_price <= 0
        THEN <<"requires a positive stop_price">> ELSE <<>>)
    \o (IF o.order_type = "TRAILING_STOP"
           /\ (o.trail_offset_pct <= 0 \/ o.trail_offset_pct >= 100)
        THEN <<"trail_offset_pct must be between 0 and 1">> ELSE <<>>)
    \o (IF o.time_in_force = "GTD" /\ o.expire_at_ns <= 0
        THEN <<"GTD orders require a positive expire_at_ns">> ELSE <<>>)
    \o (IF o.order_type = "ICEBERG"
           /\ (o.iceberg_show_qty <= 0 \/ o.iceberg_show_qty >= o.quantity)
        THEN <<"iceberg_show_qty must be > 0 and < quantity">> ELSE <<>>)

\* The order book with the orders it refers to, as one value:
\* os the Order objects, st the keys of _orders, act _active_ids,
\* pk the simulator's _trailing_peaks, out what the call returned.
Bk(os, st, act, pk, out) == [os |-> os, st |-> st, act |-> act, pk |-> pk, out |-> out]

Now == Bk(orders, stored, active_ids, trailing_peaks, ret)

\* OrderBook.submit(order)
SubmitStoresAnyway(b, id) ==
    LET errors == Validate(b.os[id])
    IN [b EXCEPT !.os[id].status = IF errors # <<>> THEN "REJECTED" ELSE "SUBMITTED",
                 !.st = @ \cup {id},
                 !.act = Append(@, id),
                 !.out = errors]
SubmitOp(b, id) ==
    LET errors == Validate(b.os[id])
    IN IF errors # <<>>
       THEN [b EXCEPT !.os[id].status = "REJECTED", !.out = errors]
       ELSE [b EXCEPT !.os[id].status = "SUBMITTED",
                      !.st = @ \cup {id},
                      !.act = Append(@, id),
                      !.out = <<>>]

\* OrderBook.cancel(order_id)
CancelOp(b, id) ==
    IF id \notin b.st
    THEN [b EXCEPT !.out = FALSE]
    ELSE [b EXCEPT !.os[id] = CancelOrder(@),
                   !.act = RemoveFirst(@, id),
                   !.out = TRUE]

\* The quantity try_fill records for a request of fill_qty.
ClipNot(fill_qty, remaining) == fill_qty
Clip(fill_qty, remaining) == Min(fill_qty, remaining)

\* OrderBook.try_fill(order_id, fill_price, fill_qty): out is TRUE for a
\* Fill, FALSE for None.
TryFillOp(b, id, fill_price, fill_qty) ==
    IF id \notin b.st \/ ~IsActive(b.os[id])
    THEN [b EXCEPT !.out = FALSE]
    ELSE LET qty == Clip(fill_qty, RemainingQuantity(b.os[id]))
         IN IF qty <= 0
            THEN [b EXCEPT !.out = FALSE]
            ELSE LET o == RecordFill(b.os[id], fill_price, qty)
                 IN [b EXCEPT !.os[id] = o,
                              !.act = IF ~IsActive(o) THEN RemoveFirst(@, id) ELSE @,
                              !.out = TRUE]

\* OrderBook.cancel_all: cancels the ids of a copy of _active_ids in turn.
RECURSIVE CancelEach(_, _, _)
CancelEach(b, ids, count) ==
    IF ids = <<>> THEN [b EXCEPT !.out = count]
    ELSE LET b1 == CancelOp(b, Head(ids))
         IN CancelEach(b1, Tail(ids), IF b1.out THEN count + 1 ELSE count)

CancelAllOp(b) == CancelEach(b, b.act, 0)

\* FillSimulator: slippage_bps = 10, fee_bps = 30. The prices of the model
\* are in units in which the slip of a price p is p itself (one unit of
\* price is 1000 units of fill price).
SlippageBps == 10
FillPrice(price, side) ==
    IF side = "BUY" THEN price * 10000 + price * SlippageBps
                    ELSE price * 10000 - price * SlippageBps

\* FillSimulator._try_match(order, price)
TryMatch(b, id, price) ==
    LET o == b.os[id]
        rem == RemainingQuantity(o)
        none == [b EXCEPT !.out = FALSE]
    IN CASE o.order_type = "MARKET" ->
              TryFillOp(b, id, FillPrice(price, o.side), rem)
         [] o.order_type = "LIMIT" ->
              IF o.limit_price = 0 THEN none
              ELSE IF \/ o.side = "BUY" /\ price <= o.limit_price
                      \/ o.side = "SELL" /\ price >= o.limit_price
                   THEN TryFillOp(b, id, o.limit_price * 10000, rem)
                   ELSE none
         [] o.order_type = "STOP" ->
              IF o.stop_price = 0 THEN none
              ELSE IF \/ o.side = "SELL" /\ price <= o.stop_price
                      \/ o.side = "BUY" /\ price >= o.stop_price
                   THEN TryFillOp(b, id, FillPrice(price, o.side), rem)
                   ELSE none
         [] o.order_type = "TRAILING_STOP" ->
              LET p0 == IF b.pk[id] = 0 THEN price ELSE b.pk[id]
                  peak == IF o.side = "SELL" THEN Max(p0, price) ELSE Min(p0, price)
                  hit == IF o.side = "SELL"
                         THEN price * 100 <= peak * (100 - o.trail_offset_pct)
                         ELSE price * 100 >= peak * (100 + o.trail_offset_pct)
              IN IF hit
                 THEN TryFillOp([b EXCEPT !.pk[id] = 0], id, FillPrice(price, o.side), rem)
                 ELSE [b EXCEPT !.pk[id] = peak, !.out = FALSE]
         [] OTHER -> none

\* FillSimulator.on_price(token, price): every order of book.active_orders
\* (a list built when the loop starts) on that token is matched in turn; out
\* is the number of fills.
RECURSIVE MatchEach(_, _, _, _, _)
MatchEach(b, ids, token, price, count) ==
    IF ids = <<>> THEN [b EXCEPT !.out = count]
    ELSE IF b.os[Head(ids)].token # token
         THEN MatchEach(b, Tail(ids), token, price, count)
         ELSE LET b1 == TryMatch(b, Head(ids), price)
              IN MatchEach(b1, Tail(ids), token, price,
                           IF b1.out THEN count + 1 ELSE count)

OnPriceOp(b, token, price) ==
    MatchEach(b, SelectSeq(b.act, LAMBDA id : id \in b.st), token, price, 0)

\* The state after a call, and the record of the call.
Becomes(b, op, id) ==
    /\ orders' = b.os
    /\ stored' = b.st
    /\ active_ids' = b.act
    /\ trailing_peaks' = b.pk
    /\ ret' = [op |-> op, id |-> id, val |-> b.out]
    /\ UNCHANGED notBook

NoCall == [op |-> "none", id |-> "none", val |-> FALSE]

\* OrderBook(), FillSimulator(book) and the orders a client has built.
BookStart ==
    /\ orders \in [OrderIds -> {NewOrder(a) : a \in OrderInputs}]
    /\ stored = {}
    /\ active_ids = <<>>
    /\ trailing_peaks = [id \in OrderIds |-> 0]
    /\ ret = NoCall

\* No order book, no order.
BookIdle ==
    /\ orders = <<>>
    /\ stored = {}
    /\ active_ids = <<>>
    /\ trailing_peaks = <<>>
    /\ ret = <<>>

Submit(id) ==
    /\ Len(active_ids) < MaxActive
    /\ Becomes(SubmitOp(Now, id), "submit", id)

Cancel(id) ==
    /\ id \in OrderIds
    /\ Becomes(CancelOp(Now, id), "cancel", id)

TryFill(id, price, qty) ==
    /\ Len(orders[id].fills) < MaxFills
    /\ Becomes(TryFillOp(Now, id, price, qty), "try_fill", id)

CancelAll ==
    /\ active_ids # <<>>
    /\ Becomes(CancelAllOp(Now), "cancel_all", "none")

OnPrice(token, price) ==
    /\ \A id \in OrderIds : Len(orders[id].fills) < MaxFills
    /\ Becomes(OnPriceOp(Now, token, price), "on_price", "none")

BookNext ==
    \/ \E id \in OrderIds : Submit(id)
    \/ \E id \in OrderIds : Cancel(id)
    \/ \E id \in OrderIds, p \in FillPrices, q \in FillQtys : TryFill(id, p, q)
    \/ CancelAll
    \/ \E t \in Tokens, p \in TickPrices : OnPrice(t, p)

-----------------------------------------------------------------------------
(* GraduationSniper, PaperAdapter and the bus that BacktestRunner wires    *)
(* them to.                                                                *)
(*                                                                         *)
(* Amounts of money and of tokens are held as multiples of 1/Unit, with    *)
(* Unit chosen so that every product and quotient the code forms on the    *)
(* inputs of the model is a whole number: the arithmetic is exact.         *)

Mints == {"M1", "M2"}

\* price_usd of the price updates; 0 is a price that the handlers ignore.
UpdatePrices == {0, 8, 10, 13, 15}

RECURSIVE Product(_)
Product(S) == IF S = {} THEN 1
              ELSE LET x == CHOOSE y \in S : TRUE IN x * Product(S \ {x})

Unit == 4 * Product(UpdatePrices \ {0})

\* GraduationSniper.__init__: the defaults. Fractions are in hundredths.
BasePositionUsd == 50
MaxPositions == 5
MinScore == 60
TakeProfitPct == 50
StopLossPct == 20
TrailingStopPct == 15
TrailingActivatePct == 30
MaxHoldSeconds == 600
MinLiquidity == 3000
MaxMcapLiqRatio == 200
MaxTop10Concentration == 90

\* PaperAdapter.__init__: the default.
InitialBalanceUsd == 1000

\* The sniper is built as GraduationSniper(min_holders=100,
\* min_sol_raised=50). __init__ takes the two arguments and keeps neither.
MinHolders == 100
MinSolRaised == 50

\* A GraduationEvent. metrics says whether the object has the attributes
\* score_graduation reads: the class GraduationEvent declares none of them,
\* an instance of it has metrics FALSE.
Grad(mint, price, metrics, buys, sells, ch5m, ch1h, top10, dev, snipers, holders, sol, mcap, liq, txns) ==
    [type |-> "SIGNAL", signal |-> "graduation", mint |-> mint,
     initial_price_usd |-> price, metrics |-> metrics,
     buys_1h |-> buys, sells_1h |-> sells,
     price_change_5m |-> ch5m, price_change_1h |-> ch1h,
     top10_concentration |-> top10, dev_holdings_pct |-> dev,
     sniper_count |-> snipers, holder_count |-> holders, sol_raised |-> sol,
     market_cap_usd |-> mcap, liquidity_usd |-> liq, txns_24h |-> txns]

\* The graduations published: as the feeds and the backtest build them
\* (no metrics), with metrics that score 100 and 60 (the latter with fewer
\* holders than MinHolders), with less SOL raised than MinSolRaised, with
\* a liquidity that the hard filter refuses, and with no price.
GradInputs ==
    UNION { { Grad(m, 10, FALSE, 0, 0, 0, 0, 0, 0, 0, 150, 70, 0, 0, 0),
              Grad(m, 10, TRUE, 70, 30, 20, 0, 25, 0, 0, 600, 70, 500000, 60000, 12000),
              Grad(m, 10, TRUE, 0, 0, 0, 0, 0, 0, 10, 60, 70, 600000, 10000, 12000),
              Grad(m, 10, TRUE, 70, 30, 20, 0, 25, 0, 0, 600, 40, 500000, 60000, 12000),
              Grad(m, 10, TRUE, 70, 30, 20, 0, 25, 0, 0, 600, 70, 500000, 2000, 12000),
              Grad(m, 0,  TRUE, 70, 30, 20, 0, 25, 0, 0, 600, 70, 500000, 60000, 12000) }
            : m \in Mints }

\* score_graduation: the four components and the total.
Momentum(e) ==
    LET total_1h == e.buys_1h + e.sells_1h
        ratio == IF total_1h > 0
                 THEN (IF e.buys_1h * 100 > 65 * total_1h THEN 15
                       ELSE IF e.buys_1h * 100 > 55 * total_1h THEN 8
                       ELSE IF e.buys_1h * 100 < 35 * total_1h THEN -15
                       ELSE IF e.buys_1h * 100 < 45 * total_1h THEN -5
                       ELSE 0)
                 ELSE 0
        m5 == IF e.price_change_5m > 15 THEN 10
              ELSE IF e.price_change_5m > 0 THEN 3
              ELSE IF e.price_change_5m < -15 THEN -10
              ELSE IF e.price_change_5m < 0 THEN -3
              ELSE 0
        h1 == IF e.price_change_1h > 50 THEN 5
              ELSE IF e.price_change_1h < -30 THEN -10
              ELSE 0
    IN ratio + m5 + h1

\* The same with the two upper bands of the concentration exchanged.
QualityBandsExchanged(e) ==
    LET top == IF e.top10_concentration > 80 THEN -10
               ELSE IF e.top10_concentration > 50 THEN -25
               ELSE IF e.top10_concentration > 0 /\ e.top10_concentration < 30 THEN 5
               ELSE 0
        dev == IF e.dev_holdings_pct > 10 THEN -15
               ELSE IF e.dev_holdings_pct > 5 THEN -5
               ELSE IF e.dev_holdings_pct = 0 THEN 5
               ELSE 0
        snp == IF e.sniper_count > 50 THEN -10
               ELSE IF e.sniper_count > 20 THEN -5
               ELSE IF e.sniper_count < 5 THEN 3
               ELSE 0
        hld == IF e.holder_count > 500 THEN 5
               ELSE IF e.holder_count < 50 /\ e.holder_count > 0 THEN -5
               ELSE 0
    IN top + dev + snp + hld

Quality(e) ==
    LET top == IF e.top10_concentration > 80 THEN -25
               ELSE IF e.top10_concentration > 50 THEN -10
               ELSE IF e.top10_concentration > 0 /\ e.top10_concentration < 30 THEN 5
               ELSE 0
        dev == IF e.dev_holdings_pct > 10 THEN -15
               ELSE IF e.dev_holdings_pct > 5 THEN -5
               ELSE IF e.dev_holdings_pct = 0 THEN 5
               ELSE 0
        snp == IF e.sniper_count > 50 THEN -10
               ELSE IF e.sniper_count > 20 THEN -5
               ELSE IF e.sniper_count < 5 THEN 3
               ELSE 0
        hld == IF e.holder_count > 500 THEN 5
               ELSE IF e.holder_count < 50 /\ e.holder_count > 0 THEN -5
               ELSE 0
    IN top + dev + snp + hld

\* market_cap_usd or (initial_price_usd * 1e9)
Mcap(e) == IF e.market_cap_usd # 0 THEN e.market_cap_usd
           ELSE e.initial_price_usd * 1000000000

Liquidity(e) ==
    LET liq == e.liquidity_usd
        rat == IF liq > 0
               THEN (IF Mcap(e) > 200 * liq THEN -25
                     ELSE IF Mcap(e) > 100 * liq THEN -15
                     ELSE IF Mcap(e) > 50 * liq THEN -5
                     ELSE IF Mcap(e) < 10 * liq THEN 5
                     ELSE 0)
               ELSE -15
        abs == IF liq < 3000 /\ liq > 0 THEN -10
               ELSE IF liq > 50000 THEN 5
               ELSE 0
    IN rat + abs

Activity(e) ==
    IF e.txns_24h > 10000 THEN 10
    ELSE IF e.txns_24h > 5000 THEN 5
    ELSE IF e.txns_24h > 1000 THEN 2
    ELSE IF e.txns_24h < 200 /\ e.txns_24h > 0 THEN -10
    ELSE 0

ScoreGraduation(e) ==
    Max(0, Min(100, 50 + Momentum(e) + Quality(e) + Liquidity(e) + Activity(e)))

\* dict operations
Put(d, k, v) == [x \in DOMAIN d \cup {k} |-> IF x = k THEN v ELSE d[x]]
Pop(d, k) == [x \in DOMAIN d \ {k} |-> d[x]]
Get(d, k, default) == IF k \in DOMAIN d THEN d[k] ELSE default
EmptyDict == [x \in {} |-> 0]

\* The events the strategy and the adapter publish.
OrderEvent(side, token, amount_usd, amount) ==
    [type |-> "ORDER_SUBMITTED", side |-> side, token |-> token,
     amount_usd |-> amount_usd, amount |-> amount]
FilledEvent(token, amount_usd) ==
    [type |-> "ORDER_FILLED", token_in |-> token, amount_in |-> amount_usd]
RejectedEvent(token) == [type |-> "ORDER_REJECTED", token_in |-> token]
ErrorEvent(original) == [type |-> "ERROR", original_event |-> original]
PriceEvent(token, price) == [type |-> "PRICE_UPDATE", token |-> token, price_usd |-> price]
DevEvent(mint, action) ==
    [type |-> "SIGNAL", signal |-> "dev_activity", mint |-> mint, action |-> action]

\* The strategy, the adapter, the counters of their bus and the events
\* published so far by the call in progress, as one value. exc: an exception
\* is propagating out of the handler.
World(sn, pa, bs, out) ==
    [sn |-> sn, pa |-> pa, ec |-> bs.event_count, er |-> bs.error_count,
     out |-> out, exc |-> FALSE]

\* EventBus.publish, up to the loop over the handlers.
Published(w, ev) == [w EXCEPT !.ec = @ + 1, !.out = Append(@, ev)]

\* EventBus.publish: the except clause, for a handler that raised. No
\* handler is subscribed to ERROR.
Caught(w, kind) ==
    IF ~w.exc THEN w
    ELSE LET w1 == [w EXCEPT !.exc = FALSE, !.er = @ + 1]
         IN IF kind # "ERROR" THEN Published(w1, ErrorEvent(kind)) ELSE w1

\* Strategy._handle_order_filled
HandleOrderFilled(w) == [w EXCEPT !.sn.trade_count = @ + 1]

\* publish(ORDER_FILLED): the strategy is its subscriber.
PublishFilled(w, ev) == Caught(HandleOrderFilled(Published(w, ev)), "ORDER_FILLED")

\* A rejection that is not published.
PublishRejectedNever(w, ev) == w

\* publish(ORDER_REJECTED): no subscriber.
PublishRejected(w, ev) == Published(w, ev)

\* The tokens a buy of amount_usd adds to the position.
TokensBoughtOneToOne(amount_usd, price) == amount_usd
TokensBought(amount_usd, price) ==
    IF price > 0 THEN amount_usd \div price ELSE amount_usd

\* PaperAdapter._sync_fill
SyncFill(w, order) ==
    LET pa == w.pa
        token == order.token
        amount_usd == order.amount_usd
        price == Get(pa.last_prices, token, 0)
        filled(w1) == PublishFilled(w1, FilledEvent(token, amount_usd))
    IN CASE order.side = "buy" ->
              IF amount_usd > pa.balance_usd
              THEN PublishRejected(w, RejectedEvent(token))
              ELSE filled([w EXCEPT
                     !.pa.balance_usd = @ - amount_usd,
                     !.pa.positions = Put(@, token, Get(@, token, 0)
                                                     + TokensBought(amount_usd, price)),
                     !.pa.entry_prices = Put(@, token, IF price > 0 THEN price ELSE 1),
                     !.pa.total_volume = @ + amount_usd,
                     !.pa.fill_count = @ + 1])
         [] order.side = "sell" ->
              LET held == Get(pa.positions, token, 0)
                  sell_amount == IF order.amount > 0 THEN Min(order.amount, held) ELSE held
                  proceeds == IF price > 0 THEN sell_amount * price ELSE 0
                  left == held - sell_amount
              IN filled([w EXCEPT
                     !.pa.balance_usd = @ + proceeds,
                     !.pa.positions = IF left <= 0 THEN Pop(@, token)
                                      ELSE Put(@, token, left),
                     !.pa.total_volume = @ + proceeds,
                     !.pa.fill_count = @ + 1])
         [] OTHER -> filled(w)

\* publish(ORDER_SUBMITTED): PaperAdapter._handle_order is its subscriber.
PublishOrder(w, ev) == Caught(SyncFill(Published(w, ev), ev), "ORDER_SUBMITTED")

\* Strategy.buy, Strategy.sell
Buy(w, token, amount_usd) == PublishOrder(w, OrderEvent("buy", token, amount_usd, 0))
Sell(w, token, amount) == PublishOrder(w, OrderEvent("sell", token, 0, amount))

\* An exit that is not counted.
ExitUncounted(w, mint, price, reason) ==
    LET pos == w.sn.positions[mint]
        w1 == [w EXCEPT !.sn.pnl = @ + pos.amount_tokens * (price - pos.entry_price)]
        w2 == Sell(w1, mint, pos.amount_tokens)
    IN [w2 EXCEPT !.sn.positions = Pop(@, mint)]

\* GraduationSniper._exit
Exit(w, mint, price, reason) ==
    LET pos == w.sn.positions[mint]
        w1 == [w EXCEPT
                 !.sn.pnl = @ + pos.amount_tokens * (price - pos.entry_price),
                 !.sn.exits[reason] = @ + 1]
        w2 == Sell(w1, mint, pos.amount_tokens)
    IN [w2 EXCEPT !.sn.positions = Pop(@, mint)]

\* The size of the position for a score.
PositionUsd(score) ==
    IF score >= 80 THEN BasePositionUsd * Unit
    ELSE IF score >= 70 THEN (BasePositionUsd * Unit * 3) \div 4
    ELSE (BasePositionUsd * Unit) \div 2

\* _on_graduation: len(self._positions) >= self.max_positions
AtCapacityNever(sn) == FALSE
AtCapacity(sn) == Cardinality(DOMAIN sn.positions) >= sn.max_positions

\* GraduationSniper._on_graduation, at the time now.
OnGraduation(w, e, now) ==
    LET sn == w.sn
        mint == e.mint
        skip == [w EXCEPT !.sn.filtered = @ + 1]
        score == ScoreGraduation(e)
        scored == [w EXCEPT !.sn.scores = Append(@, score)]
        liq == e.liquidity_usd
        position_usd == PositionUsd(score)
        entry_price == e.initial_price_usd
    IN IF mint \in DOMAIN sn.positions THEN w
       ELSE IF AtCapacity(sn) THEN skip
       ELSE IF e.initial_price_usd <= 0 THEN skip
       ELSE IF ~e.metrics THEN [w EXCEPT !.exc = TRUE]
       ELSE IF liq > 0 /\ liq < MinLiquidity THEN [scored EXCEPT !.sn.filtered = @ + 1]
       ELSE IF liq > 0 /\ Mcap(e) > MaxMcapLiqRatio * liq
            THEN [scored EXCEPT !.sn.filtered = @ + 1]
       ELSE IF e.top10_concentration > 0 /\ e.top10_concentration > MaxTop10Concentration
            THEN [scored EXCEPT !.sn.filtered = @ + 1]
       ELSE IF score < MinScore THEN [scored EXCEPT !.sn.filtered = @ + 1]
       ELSE Buy([scored EXCEPT
                   !.sn.passed = @ + 1,
                   !.sn.positions = Put(@, mint,
                       [entry_price |-> entry_price,
                        amount_usd |-> position_usd,
                        amount_tokens |-> position_usd \div entry_price,
                        entered_at |-> now,
                        score |-> score,
                        highest_price |-> entry_price])],
                mint, position_usd)

\* GraduationSniper._on_dev_activity (exit_on_dev_sell is True)
OnDevActivity(w, e) ==
    IF e.mint \notin DOMAIN w.sn.positions THEN w
    ELSE IF e.action = "sell"
         THEN Exit(w, e.mint, w.sn.positions[e.mint].entry_price, "dev_sell")
         ELSE w

\* GraduationSniper._handle_signal
HandleSignal(w, e, now) ==
    IF e.signal = "graduation" THEN OnGraduation(w, e, now) ELSE OnDevActivity(w, e)

\* The exit on_price_update takes for a position, "none" if it holds on.
ExitReasonTimeoutFirst(pos, price, now) == 
    IF now - pos.entered_at >= MaxHoldSeconds THEN "timeout"
    ELSE IF (price - pos.entry_price) * 100 >= TakeProfitPct * pos.entry_price
         THEN "take_profit"
    ELSE IF (price - pos.entry_price) * 100 <= (0 - StopLossPct) * pos.entry_price
         THEN "stop_loss"
    ELSE IF /\ (pos.highest_price - pos.entry_price) * 100
                  >= TrailingActivatePct * pos.entry_price
            /\ pos.highest_price > 0
            /\ (pos.highest_price - price) * 100 >= TrailingStopPct * pos.highest_price
         THEN "trailing_stop"
    ELSE "none"
ExitReason(pos, price, now) ==
    IF (price - pos.entry_price) * 100 >= TakeProfitPct * pos.entry_price
    THEN "take_profit"
    ELSE IF (price - pos.entry_price) * 100 <= (0 - StopLossPct) * pos.entry_price
         THEN "stop_loss"
    ELSE IF /\ (pos.highest_price - pos.entry_price) * 100
                  >= TrailingActivatePct * pos.entry_price
            /\ pos.highest_price > 0
            /\ (pos.highest_price - price) * 100 >= TrailingStopPct * pos.highest_price
         THEN "trailing_stop"
    ELSE IF now - pos.entered_at >= MaxHoldSeconds THEN "timeout"
    ELSE "none"

\* GraduationSniper.on_price_update, at the time now.
OnPriceUpdate(w, e, now) ==
    IF e.token \notin DOMAIN w.sn.positions THEN w
    ELSE IF e.price_usd <= 0 THEN w
    ELSE LET w1 == [w EXCEPT !.sn.positions[e.token].highest_price = Max(@, e.price_usd)]
             reason == ExitReason(w1.sn.positions[e.token], e.price_usd, now)
         IN IF reason = "none" THEN w1 ELSE Exit(w1, e.token, e.price_usd, reason)

\* PaperAdapter._track_price
TrackPrice(w, e) ==
    IF e.price_usd > 0 THEN [w EXCEPT !.pa.last_prices = Put(@, e.token, e.price_usd)]
    ELSE w

\* publish(PRICE_UPDATE): Strategy._handle_price_update, subscribed by
\* bind, runs before PaperAdapter._track_price.
PublishPrice(w, e, now) ==
    LET w1 == Caught(OnPriceUpdate(Published(w, e), e, now), "PRICE_UPDATE")
    IN Caught(TrackPrice(w1, e), "PRICE_UPDATE")

\* publish(SIGNAL): GraduationSniper._handle_signal is its subscriber.
PublishSignal(w, e, now) == Caught(HandleSignal(Published(w, e), e, now), "SIGNAL")

\* The exit reasons GraduationSniper counts.
ExitReasons == {"take_profit", "stop_loss", "trailing_stop", "timeout", "dev_sell"}

\* What other publishers of ORDER_SUBMITTED ask for: amount_usd of a buy
\* in USD, amount of a sell in tokens (0: everything held).
BuyAmounts == {40, 1200}
SellAmounts == {0}
SeedPrices == {10}
DevActions == {"sell", "transfer"}
\* The token of the orders of other publishers.
OrderTokens == {"M1"}

\* max_positions of a sniper built to hold few positions, as the tests
\* build one.
FewPositions == 1

\* GraduationSniper(max_positions=...), PaperAdapter(), EventBus() and the
\* clock.
NewSniper(max_positions) ==
    [max_positions |-> max_positions,
     positions |-> EmptyDict, passed |-> 0, filtered |-> 0,
     scores |-> <<>>, exits |-> [r \in ExitReasons |-> 0],
     pnl |-> 0, trade_count |-> 0]

NewPaper ==
    [balance_usd |-> InitialBalanceUsd * Unit,
     positions |-> EmptyDict, entry_prices |-> EmptyDict,
     last_prices |-> EmptyDict, fill_count |-> 0, total_volume |-> 0]

NewBus == [event_count |-> 0, error_count |-> 0]

TradeStartWith(max_positions) ==
    /\ sniper = NewSniper(max_positions)
    /\ paper = NewPaper
    /\ tbus = NewBus
    /\ published = <<>>
    /\ clock = 0

\* GraduationSniper(): max_positions is the default.
TradeStart == TradeStartWith(MaxPositions)

\* GraduationSniper(max_positions=1)
TradeStartFew == TradeStartWith(FewPositions)

\* initial_balance_usd of a paper adapter that can pay for one position.
SmallBalanceUsd == 60

\* GraduationSniper(), PaperAdapter(initial_balance_usd=60)
TradeStartAlone ==
    /\ sniper = NewSniper(MaxPositions)
    /\ paper = [NewPaper EXCEPT !.balance_usd = SmallBalanceUsd * Unit]
    /\ tbus = NewBus
    /\ published = <<>>
    /\ clock = 0

\* No strategy, no adapter.
TradeIdle ==
    /\ sniper = <<>>
    /\ paper = <<>>
    /\ tbus = <<>>
    /\ published = <<>>
    /\ clock = 0

\* The state after an outermost publish has returned.
Returns(w) ==
    /\ sniper' = w.sn
    /\ paper' = w.pa
    /\ tbus' = [event_count |-> w.ec, error_count |-> w.er]
    /\ published' = w.out
    /\ UNCHANGED <<clock, notTrade>>

Here == World(sniper, paper, tbus, <<>>)

\* A feed publishes a graduation.
Graduate(e) ==
    /\ tbus.event_count < MaxEvents
    /\ Returns(PublishSignal(Here, e, clock))

\* A feed publishes a move of the dev wallet.
DevActivity(mint, action) ==
    /\ tbus.event_count < MaxEvents
    /\ Returns(PublishSignal(Here, DevEvent(mint, action), clock))

\* A feed publishes a price.
PriceTick(token, price) ==
    /\ tbus.event_count < MaxEvents
    /\ Returns(PublishPrice(Here, PriceEvent(token, price), clock))

\* Another strategy publishes an order.
ClientOrder(side, token, amount) ==
    /\ tbus.event_count < MaxEvents
    /\ Returns(PublishOrder(Here, IF side = "buy"
                                  THEN OrderEvent("buy", token, amount * Unit, 0)
                                  ELSE OrderEvent("sell", token, 0, amount * Unit)))

\* PaperAdapter.set_price
SetPrice(token, price) ==
    /\ paper' = [paper EXCEPT !.last_prices = Put(@, token, price)]
    /\ published' = <<>>
    /\ UNCHANGED <<sniper, tbus, clock, notTrade>>

\* time.time_ns() moves on.
Tick ==
    /\ clock < MaxClock
    /\ clock' = clock + ClockStep
    /\ published' = <<>>
    /\ UNCHANGED <<sniper, paper, tbus, notTrade>>

TradeNext ==
    \/ \E e \in GradInputs : Graduate(e)
    \/ \E m \in Mints, a \in DevActions : DevActivity(m, a)
    \/ \E m \in Mints, p \in UpdatePrices : PriceTick(m, p)
    \/ \E m \in OrderTokens, a \in BuyAmounts : ClientOrder("buy", m, a)
    \/ \E m \in OrderTokens, a \in SellAmounts : ClientOrder("sell", m, a)
    \/ \E m \in Mints, p \in SeedPrices : SetPrice(m, p)
    \/ Tick

\* The sniper is the only publisher of orders on the bus.
TradeAloneNext ==
    \/ \E e \in GradInputs : Graduate(e)
    \/ \E m \in Mints, a \in DevActions : DevActivity(m, a)
    \/ \E m \in Mints, p \in UpdatePrices : PriceTick(m, p)
    \/ \E m \in Mints, p \in SeedPrices : SetPrice(m, p)
    \/ Tick

-----------------------------------------------------------------------------
(* BacktestRunner.run, executed twice on the same data: each execution has *)
(* its own strategy, adapter, bus and clock, and both are at the same      *)
(* place of run(). The strategy is the GraduationSniper of                 *)
(* fathom/strategies ("scoring") or the one of src/strategies              *)
(* ("filtering"), built with max_hold_seconds=600.                         *)

Runs == {1, 2}

Strategies == {"scoring", "filtering"}

\* GraduationSniper.__init__ of src/strategies: the default of max_positions.
FilteringMaxPositions == 3

\* A point of a price history and a record of the input.
Point(timestamp, price) == [timestamp |-> timestamp, price |-> price]

Record(mint, graduated_at, price, holders, sol, history) ==
    [mint |-> mint, graduated_at |-> graduated_at, initial_price_usd |-> price,
     holder_count |-> holders, sol_raised |-> sol, price_history |-> history]

\* The mint of a record that has no key "mint".
Missing == "(no key)"

\* The records of the inputs: one that lacks its mint; one price above the
\* entry; a history that is not in the order of its timestamps; a rise and
\* a fall; no initial price and a point with no price; too few holders.
RecordInputs ==
    { Record(Missing, 1, 10, 150, 70, << Point(1, 13) >>),
      Record("M1", 1, 10, 150, 70, << Point(1, 13) >>),
      Record("M1", 1, 10, 150, 70, << Point(2, 8), Point(1, 13) >>),
      Record("M2", 2, 10, 150, 70, << Point(1, 13), Point(2, 10) >>),
      Record("M2", 1, 0, 150, 70, << Point(1, 0) >>),
      Record("M2", 2, 10, 50, 70, << >>) }

DataInputs == UNION { [1..n -> RecordInputs] : n \in 1..MaxRecords }

\* sorted(self.data, key=graduated_at): the sort is stable.
RECURSIVE Insert(_, _)
Insert(s, x) ==
    IF s = <<>> THEN <<x>>
    ELSE IF s[Len(s)].graduated_at <= x.graduated_at THEN Append(s, x)
    ELSE Append(Insert(SubSeq(s, 1, Len(s) - 1), x), s[Len(s)])

RECURSIVE SortedData(_)
SortedData(d) ==
    IF d = <<>> THEN <<>>
    ELSE Insert(SortedData(SubSeq(d, 1, Len(d) - 1)), d[Len(d)])

\* GraduationSniper._on_graduation of src/strategies, at the time now.
OnGraduationFiltering(w, e, now) ==
    LET sn == w.sn
        mint == e.mint
        skip == [w EXCEPT !.sn.filtered = @ + 1]
        position_size_usd == BasePositionUsd * Unit
        entry_price == e.initial_price_usd
    IN IF mint \in DOMAIN sn.positions THEN w
       ELSE IF Cardinality(DOMAIN sn.positions) >= sn.max_positions THEN skip
       ELSE IF e.holder_count < MinHolders THEN skip
       ELSE IF e.sol_raised < MinSolRaised THEN skip
       ELSE IF e.initial_price_usd <= 0 THEN skip
       ELSE Buy([w EXCEPT
                   !.sn.passed = @ + 1,
                   !.sn.positions = Put(@, mint,
                       [entry_price |-> entry_price,
                        amount_usd |-> position_size_usd,
                        amount_tokens |-> position_size_usd \div entry_price,
                        entered_at |-> now,
                        highest_price |-> entry_price])],
                mint, position_size_usd)

\* publish(SIGNAL) of a graduation to the _handle_signal of the strategy.
PublishGraduation(strat, w, e, now) ==
    LET w1 == Published(w, e)
    IN Caught(IF strat = "scoring" THEN OnGraduation(w1, e, now)
              ELSE OnGraduationFiltering(w1, e, now), "SIGNAL")

\* An amount of the model in whole USD (the amounts of a backtest of the
\* inputs above are whole).
Usd(x) == x \div Unit

RECURSIVE SumOver(_, _)
SumOver(S, f) ==
    IF S = {} THEN 0
    ELSE LET x == CHOOSE y \in S : TRUE IN f[x] + SumOver(S \ {x}, f)

\* PaperAdapter.pnl
Pnl(pa) ==
    (pa.balance_usd - InitialBalanceUsd * Unit)
    + SumOver(DOMAIN pa.positions,
              [t \in DOMAIN pa.positions |-> pa.positions[t] * Get(pa.last_prices, t, 0)])

\* One execution as run() finds it: the strategy and the adapter as
\* constructed, the bus of the runner, the clock.
NewRun(strat) ==
    [sn |-> NewSniper(IF strat = "scoring" THEN MaxPositions ELSE FilteringMaxPositions),
     pa |-> NewPaper, bus |-> NewBus, clock |-> 0,
     peak_balance |-> InitialBalanceUsd * Unit,
     max_drawdown |-> [num |-> 0, den |-> 1],
     seen |-> [peak |-> InitialBalanceUsd * Unit, drawdown |-> [num |-> 0, den |-> 1]],
     result |-> <<>>]

WorldOf(r) == World(runs[r].sn, runs[r].pa, runs[r].bus, <<>>)

After(r, w) ==
    [runs[r] EXCEPT !.sn = w.sn, !.pa = w.pa,
                    !.bus = [event_count |-> w.ec, error_count |-> w.er]]

\* History: the peak of the balance and its largest drawdown, the balance
\* being looked at after every publish of run().
Observed(run) ==
    LET current == run.pa.balance_usd
        peak == Max(run.seen.peak, current)
        num == IF peak > 0 THEN Usd(peak - current) ELSE 0
        den == IF peak > 0 THEN Usd(peak) ELSE 1
    IN [run EXCEPT !.seen.peak = peak,
                   !.seen.drawdown = IF num * @.den > @.num * den
                                     THEN [num |-> num, den |-> den] ELSE @]

\* run(): the balance after a record, the peak and the largest drawdown.
TrackBalance(run) ==
    LET current == run.pa.balance_usd
        peak == Max(run.peak_balance, current)
        num == IF peak > 0 THEN Usd(peak - current) ELSE 0
        den == IF peak > 0 THEN Usd(peak) ELSE 1
    IN [run EXCEPT !.peak_balance = peak,
                   !.max_drawdown = IF num * @.den > @.num * den
                                    THEN [num |-> num, den |-> den] ELSE @]

\* run(): the BacktestResult.
Result(run) ==
    [total_graduations |-> Len(data),
     initial_balance |-> InitialBalanceUsd * Unit,
     max_drawdown |-> run.max_drawdown,
     final_balance |-> run.pa.balance_usd,
     total_pnl |-> Pnl(run.pa),
     trades_entered |-> run.pa.fill_count,
     win_count |-> run.sn.exits["take_profit"] + run.sn.exits["trailing_stop"],
     loss_count |-> run.sn.exits["stop_loss"] + run.sn.exits["timeout"]
                    + run.sn.exits["dev_sell"]]

\* BacktestRunner(strategy, adapter, data), twice.
BacktestStart ==
    /\ data \in DataInputs
    /\ strategy \in Strategies
    /\ runs = [r \in Runs |-> NewRun(strategy)]
    /\ cursor = [at |-> "start", rec |-> 0, pt |-> 0]
    /\ replayed = <<>>

\* No runner.
BacktestIdle ==
    /\ data = <<>>
    /\ strategy = ""
    /\ runs = <<>>
    /\ cursor = <<>>
    /\ replayed = <<>>

\* The record run() is at.
Current == SortedData(data)[cursor.rec]

\* run(): the wiring and the sort.
RunStart ==
    /\ cursor.at = "start"
    /\ cursor' = IF data = <<>> THEN [at |-> "stop", rec |-> 0, pt |-> 0]
                 ELSE [at |-> "seed", rec |-> 1, pt |-> 0]
    /\ UNCHANGED <<data, strategy, runs, replayed, notBacktest>>

\* run(): mint = record["mint"], which raises KeyError out of run() if the
\* record has no mint; then adapter.set_price, if the record has an
\* initial price.
RunSeed ==
    /\ cursor.at = "seed"
    /\ IF Current.mint = Missing
       THEN /\ cursor' = [cursor EXCEPT !.at = "raised"]
            /\ UNCHANGED <<runs, replayed>>
       ELSE /\ IF Current.initial_price_usd > 0
               THEN /\ runs' = [r \in Runs |->
                                 [runs[r] EXCEPT !.pa.last_prices =
                                     Put(@, Current.mint, Current.initial_price_usd)]]
                    /\ replayed' = Append(replayed,
                                     [op |-> "set_price", rec |-> cursor.rec,
                                      mint |-> Current.mint,
                                      price |-> Current.initial_price_usd])
               ELSE UNCHANGED <<runs, replayed>>
            /\ cursor' = [cursor EXCEPT !.at = "graduation"]
    /\ UNCHANGED <<data, strategy, notBacktest>>

\* run(): the GraduationEvent of the record, published.
RunGraduation ==
    /\ cursor.at = "graduation"
    /\ LET e == Grad(Current.mint, Current.initial_price_usd, FALSE, 0, 0, 0, 0, 0, 0, 0,
                     Current.holder_count, Current.sol_raised, 0, 0, 0)
       IN runs' = [r \in Runs |->
                     Observed(After(r, PublishGraduation(strategy, WorldOf(r), e,
                                                         runs[r].clock)))]
    /\ replayed' = Append(replayed,
                     [op |-> "graduation", rec |-> cursor.rec, mint |-> Current.mint,
                      graduated_at |-> Current.graduated_at])
    /\ cursor' = [cursor EXCEPT !.at = "history", !.pt = 1]
    /\ UNCHANGED <<data, strategy, notBacktest>>

\* run(): the next point of the price history, published if it has a price.
RunPoint ==
    /\ cursor.at = "history"
    /\ cursor.pt <= Len(Current.price_history)
    /\ LET point == Current.price_history[cursor.pt]
       IN IF point.price <= 0 THEN UNCHANGED <<runs, replayed>>
          ELSE /\ runs' = [r \in Runs |->
                            Observed(After(r, PublishPrice(WorldOf(r),
                                                  PriceEvent(Current.mint, point.price),
                                                  runs[r].clock)))]
               /\ replayed' = Append(replayed,
                                [op |-> "price", rec |-> cursor.rec,
                                 mint |-> Current.mint,
                                 timestamp |-> point.timestamp,
                                 price |-> point.price])
    /\ cursor' = [cursor EXCEPT !.pt = @ + 1]
    /\ UNCHANGED <<data, strategy, notBacktest>>

\* run(): the end of a record.
RunTrack ==
    /\ cursor.at = "history"
    /\ cursor.pt > Len(Current.price_history)
    /\ runs' = [r \in Runs |-> TrackBalance(runs[r])]
    /\ cursor' = IF cursor.rec < Len(data)
                 THEN [at |-> "seed", rec |-> cursor.rec + 1, pt |-> 0]
                 ELSE [at |-> "stop", rec |-> 0, pt |-> 0]
    /\ UNCHANGED <<data, strategy, replayed, notBacktest>>

\* run(): on_stop and the result.
RunStop ==
    /\ cursor.at = "stop"
    /\ runs' = [r \in Runs |-> [runs[r] EXCEPT !.result = Result(runs[r])]]
    /\ cursor' = [cursor EXCEPT !.at = "done"]
    /\ UNCHANGED <<data, strategy, replayed, notBacktest>>

\* time.time_ns() of one execution moves on while it runs.
RunTick(r) ==
    /\ cursor.at \notin {"start", "done", "raised"}
    /\ runs[r].clock < MaxClock
    /\ runs' = [runs EXCEPT ![r].clock = @ + ClockStep]
    /\ UNCHANGED <<data, strategy, cursor, replayed, notBacktest>>

BacktestNext ==
    \/ RunStart
    \/ RunSeed
    \/ RunGraduation
    \/ RunPoint
    \/ RunTrack
    \/ RunStop
    \/ \E r \in Runs : RunTick(r)

-----------------------------------------------------------------------------
(* DrawdownCircuitBreaker (fathom/core/risk.py). Equity is in USD; the     *)
(* fractions are in hundredths and compared by cross-multiplication.       *)

\* DrawdownCircuitBreaker.__init__: the defaults.
ThresholdPct == 15
RecoveryPct == 5
CooldownSeconds == 300

\* Seconds between two readings of time.monotonic().
MonoStep == 150

\* The equity observations fed to update.
Equities == {0, 85, 90, 95, 100, 120}

\* update: drawdown >= self.threshold
AtThresholdStrictly(peak, equity) == (peak - equity) * 100 > ThresholdPct * peak
AtThreshold(peak, equity) == (peak - equity) * 100 >= ThresholdPct * peak

\* update: drawdown <= self.recovery and elapsed >= self.cooldown_seconds
RecoveredAtOnce(b, peak, equity, now) == (peak - equity) * 100 <= RecoveryPct * peak
Recovered(b, peak, equity, now) ==
    /\ (peak - equity) * 100 <= RecoveryPct * peak
    /\ now - b.tripped_at >= CooldownSeconds

\* DrawdownCircuitBreaker.update, at the time now.
UpdateOp(b, equity, now) ==
    LET peak == IF equity > b.peak_equity THEN equity ELSE b.peak_equity
        b1 == [b EXCEPT !.peak_equity = peak]
    IN IF peak <= 0 THEN b1
       ELSE IF b.state = "ACTIVE"
            THEN (IF AtThreshold(peak, equity)
                  THEN [b1 EXCEPT !.state = "TRIPPED", !.tripped_at = now,
                                  !.trip_count = @ + 1]
                  ELSE b1)
       ELSE IF Recovered(b, peak, equity, now)
            THEN [b1 EXCEPT !.state = "ACTIVE"]
       ELSE b1

\* DrawdownCircuitBreaker()
BreakerStart ==
    /\ breaker = [state |-> "ACTIVE", peak_equity |-> 0, tripped_at |-> 0, trip_count |-> 0]
    /\ mono = 0
    /\ bcall = [op |-> "new"]

\* No breaker.
BreakerIdle ==
    /\ breaker = <<>>
    /\ mono = 0
    /\ bcall = <<>>

\* DrawdownCircuitBreaker.update
Update(equity) ==
    /\ breaker.trip_count < MaxTrips
    /\ breaker' = UpdateOp(breaker, equity, mono)
    /\ bcall' = [op |-> "update", equity |-> equity, was |-> breaker.state,
                 returned |-> breaker'.state]
    /\ UNCHANGED <<mono, notBreaker>>

\* DrawdownCircuitBreaker.reset
Reset ==
    /\ breaker' = [breaker EXCEPT !.state = "ACTIVE", !.peak_equity = 0]
    /\ bcall' = [op |-> "reset"]
    /\ UNCHANGED <<mono, notBreaker>>

\* time.monotonic() moves on.
MonoTick ==
    /\ mono < MaxMono
    /\ mono' = mono + MonoStep
    /\ bcall' = [op |-> "tick"]
    /\ UNCHANGED <<breaker, notBreaker>>

BreakerNext ==
    \/ \E e \in Equities : Update(e)
    \/ Reset
    \/ MonoTick

-----------------------------------------------------------------------------
(* ExposureTracker (fathom/core/risk.py). Quantities are whole tokens;     *)
(* prices and USD amounts are in units of 1/PriceScale USD, so that the    *)
(* average entry price of a position of at most MaxQuantity tokens is      *)
(* exact.                                                                  *)

PriceScale == 60

\* ExposureTracker.__init__: the default of equity.
StartingEquity == 10000

ExposureTokens == {"T", "U"}
OpenQuantities == {1, 2}
MarkPrices == {2, 5}

\* total_unrealised_pnl
UnrealisedPnl(t) ==
    SumOver(DOMAIN t.positions,
            [k \in DOMAIN t.positions |->
               t.positions[k].quantity
                 * (t.positions[k].current_price_usd - t.positions[k].entry_price_usd)])

\* ExposureTracker.equity
Equity(t) == t.equity + UnrealisedPnl(t)

\* ExposureTracker.open_position
OpenPositionOp(t, token, quantity, price_usd) ==
    LET pos == t.positions[token]
        total_qty == pos.quantity + quantity
        avg_price == IF total_qty > 0
                     THEN (pos.entry_price_usd * pos.quantity + price_usd * quantity)
                              \div total_qty
                     ELSE price_usd
        held == [quantity |-> total_qty, entry_price_usd |-> avg_price,
                 current_price_usd |-> price_usd]
        new == [quantity |-> quantity, entry_price_usd |-> price_usd,
                current_price_usd |-> price_usd]
    IN [equity |-> t.equity - quantity * price_usd,
        positions |-> Put(t.positions, token,
                          IF token \in DOMAIN t.positions THEN held ELSE new)]

\* ExposureTracker.close_position
ClosePositionOp(t, token, price_usd) ==
    IF token \notin DOMAIN t.positions THEN t
    ELSE [equity |-> t.equity + t.positions[token].quantity * price_usd,
          positions |-> Pop(t.positions, token)]

\* ExposureTracker.update_price
UpdatePriceOp(t, token, price_usd) ==
    IF token \in DOMAIN t.positions
    THEN [t EXCEPT !.positions[token].current_price_usd = price_usd]
    ELSE t

\* ExposureTracker()
ExposureStart ==
    /\ tracker = [equity |-> StartingEquity * PriceScale, positions |-> EmptyDict]
    /\ cash = StartingEquity * PriceScale
    /\ ncalls = 0

\* No tracker.
ExposureIdle ==
    /\ tracker = <<>>
    /\ cash = 0
    /\ ncalls = 0

\* One more call on the tracker.
Call ==
    /\ ncalls < MaxCalls
    /\ ncalls' = ncalls + 1

OpenPosition(token, quantity, price) ==
    /\ Call
    /\ Get(tracker.positions, token, [quantity |-> 0]).quantity + quantity <= MaxQuantity
    /\ tracker' = OpenPositionOp(tracker, token, quantity, price * PriceScale)
    /\ cash' = cash - quantity * price * PriceScale
    /\ UNCHANGED notExposure

ClosePosition(token, price) ==
    /\ Call
    /\ tracker' = ClosePositionOp(tracker, token, price * PriceScale)
    /\ cash' = cash + Get(tracker.positions, token, [quantity |-> 0]).quantity
                        * price * PriceScale
    /\ UNCHANGED notExposure

UpdatePrice(token, price) ==
    /\ Call
    /\ tracker' = UpdatePriceOp(tracker, token, price * PriceScale)
    /\ UNCHANGED <<cash, notExposure>>

ExposureNext ==
    \/ \E t \in ExposureTokens, q \in OpenQuantities, p \in MarkPrices : OpenPosition(t, q, p)
    \/ \E t \in ExposureTokens, p \in MarkPrices : ClosePosition(t, p)
    \/ \E t \in ExposureTokens, p \in MarkPrices : UpdatePrice(t, p)

-----------------------------------------------------------------------------
(* Engine (fathom/core/engine.py): run(), _run_async() and stop(), with two *)
(* adapters, one feed and two strategies registered. A step of the model   *)
(* is what the program does between two suspension points of the event     *)
(* loop: the connect tasks, the feed's task, the signal handler and        *)
(* _run_async take turns there.                                            *)

Adapters == {"a1", "a2"}

Feeds == {"f1"}

Components == Adapters \cup Feeds

\* connect_tasks and stop() go through the adapters, then through the feeds.
ConnectOrder == <<"a1", "a2", "f1">>

\* Engine._strategies, in registration order.
StrategyOrder == <<"s1", "s2">>

EngineStrategies == {StrategyOrder[i] : i \in 1..Len(StrategyOrder)}

\* What the registered objects do when called: whose connect() raises,
\* whose on_start, on_stop and on_price_update raise.
Wirings == [connect_fails : SUBSET Components, bad_on_start : SUBSET EngineStrategies, bad_on_stop : SUBSET EngineStrategies, bad_callback : SUBSET EngineStrategies]

Did(op, who) == [op |-> op, who |-> who]

NewEngine == [running |-> FALSE, pc |-> "new", loop |-> "none", conn |-> [c \in Components |-> "idle"], heartbeats |-> 0, events |-> 0]

\* A wait that ends at the first connect that raises.
GatherDoneAtFirstFailure(conn) == (\E c \in Components : conn[c] = "failed") \/ (\A c \in Components : conn[c] \in {"connected", "failed"})

\* await asyncio.gather(*connect_tasks, return_exceptions=True) resumes.
GatherDone(conn) == \A c \in Components : conn[c] \in {"connected", "failed"}

\* loop.run_until_complete(coro) runs coro on a loop that is neither
\* running nor closed. asyncio.get_event_loop() raises RuntimeError once
\* asyncio.run has closed its loop, and run_until_complete raises
\* RuntimeError on the running loop.
RunUntilComplete(loop) == loop = "none"

RECURSIVE OnStartAll(_, _, _)
\* for strategy in self._strategies: strategy.on_start(), from the i-th on:
\* nothing catches what on_start raises.
OnStartAll(w, tr, i) ==
    IF i > Len(StrategyOrder) THEN [log |-> tr, raised |-> FALSE]
    ELSE LET s == StrategyOrder[i]
             tr1 == Append(tr, Did("on_start", s))
         IN  IF s \in w.bad_on_start THEN [log |-> tr1, raised |-> TRUE]
             ELSE OnStartAll(w, tr1, i + 1)

RECURSIVE OnStopAll(_, _, _)
\* for strategy in self._strategies: try strategy.on_stop() except: log.
OnStopAll(w, tr, i) ==
    IF i > Len(StrategyOrder) THEN tr
    ELSE LET s == StrategyOrder[i]
             tr1 == Append(tr, Did("on_stop", s))
             tr2 == IF s \in w.bad_on_stop THEN Append(tr1, Did("on_stop_error", s)) ELSE tr1
         IN  OnStopAll(w, tr2, i + 1)

RECURSIVE DisconnectAll(_, _, _)
\* for each adapter, then each feed:
\*   try: asyncio.get_event_loop().run_until_complete(x.disconnect())
\*   except Exception: pass
\* disconnect() runs only if run_until_complete does.
DisconnectAll(e, tr, i) ==
    IF i > Len(ConnectOrder) THEN [engine |-> e, log |-> tr]
    ELSE LET c == ConnectOrder[i]
         IN  IF RunUntilComplete(e.loop)
             THEN DisconnectAll([e EXCEPT !.conn[c] = "disconnected"], Append(tr, Did("disconnect", c)), i + 1)
             ELSE DisconnectAll(e, Append(tr, Did("disconnect_error", c)), i + 1)

\* Engine.stop
StopOp(e, w, tr) ==
    IF ~e.running THEN [engine |-> e, log |-> tr]
    ELSE LET d == DisconnectAll([e EXCEPT !.running = FALSE], OnStopAll(w, tr, 1), 1)
         IN  [engine |-> d.engine, log |-> Append(d.log, Did("engine_stop", "engine"))]

\* asyncio.run ends, returning or raising (how), and run() goes through
\* its finally clause: self.stop().
Finally(e, w, tr, how) ==
    LET s == StopOp([e EXCEPT !.loop = "closed"], w, tr)
    IN  [engine |-> [s.engine EXCEPT !.pc = how], log |-> s.log]

\* while self._running: await asyncio.sleep(0.1) ...
WhileRunning(e, w, tr) ==
    IF e.running THEN [engine |-> [e EXCEPT !.pc = "sleep"], log |-> tr]
    ELSE Finally(e, w, tr, "returned")

RECURSIVE Deliver(_, _, _)
\* EventBus.publish of a price update: the strategies' handlers in
\* subscription order, an exception counted and reported as an ERROR
\* event, which Engine._on_error logs.
Deliver(w, tr, i) ==
    IF i > Len(StrategyOrder) THEN tr
    ELSE LET s == StrategyOrder[i]
             tr1 == Append(tr, Did("callback", s))
             tr2 == IF s \in w.bad_callback THEN Append(tr1, Did("error", s)) ELSE tr1
         IN  Deliver(w, tr2, i + 1)

EngineStart ==
    /\ engine = NewEngine
    /\ wiring \in Wirings
    /\ elog = <<>>

EngineIdle ==
    /\ engine = NewEngine
    /\ wiring = [connect_fails |-> {}, bad_on_start |-> {}, bad_on_stop |-> {}, bad_callback |-> {}]
    /\ elog = <<>>

\* run(), to the first suspension of _run_async: gather has made a task of
\* every connect() and waits.
Run ==
    /\ engine.pc = "new"
    /\ engine' = [engine EXCEPT !.running = TRUE, !.loop = "running", !.pc = "connect", !.conn = [c \in Components |-> "connecting"]]
    /\ elog' = <<Did("engine_start", "engine")>> \o [i \in 1..Len(ConnectOrder) |-> Did("connect_task", ConnectOrder[i])]
    /\ UNCHANGED <<wiring, notEngine>>

\* The task of c.connect() ends, returning or raising.
ConnectEnd(c) ==
    /\ engine.loop = "running"
    /\ engine.conn[c] = "connecting"
    /\ LET ok == c \notin wiring.connect_fails
       IN  /\ engine' = [engine EXCEPT !.conn[c] = IF ok THEN "connected" ELSE "failed"]
           /\ elog' = Append(elog, Did(IF ok THEN "connected" ELSE "connect_failed", c))
    /\ UNCHANGED <<wiring, notEngine>>

\* _run_async from the end of the gather to its next suspension, or to the
\* end of run().
StartStrategies ==
    /\ engine.pc = "connect"
    /\ GatherDone(engine.conn)
    /\ LET r == OnStartAll(wiring, elog, 1)
           n == IF r.raised THEN Finally(engine, wiring, r.log, "raised") ELSE WhileRunning(engine, wiring, r.log)
       IN  /\ engine' = n.engine
           /\ elog' = n.log
    /\ UNCHANGED <<wiring, notEngine>>

\* The sleep ends: the heartbeat, then the test of the while loop.
Wake ==
    /\ engine.pc = "sleep"
    /\ engine.running => engine.heartbeats < MaxHeartbeats
    /\ LET n == WhileRunning([engine EXCEPT !.heartbeats = @ + 1], wiring, Append(elog, Did("heartbeat", "engine")))
       IN  /\ engine' = n.engine
           /\ elog' = n.log
    /\ UNCHANGED <<wiring, notEngine>>

\* SIGINT or SIGTERM: the loop calls the handler, self.stop.
Signal ==
    /\ engine.loop = "running"
    /\ LET s == StopOp(engine, wiring, elog)
       IN  /\ engine' = s.engine
           /\ elog' = s.log
    /\ UNCHANGED <<wiring, notEngine>>

\* The task of a connected feed publishes a price update.
FeedEvent(f) ==
    /\ engine.loop = "running"
    /\ engine.conn[f] = "connected"
    /\ engine.events < MaxFeedEvents
    /\ engine' = [engine EXCEPT !.events = @ + 1]
    /\ elog' = Deliver(wiring, Append(elog, Did("price_update", f)), 1)
    /\ UNCHANGED <<wiring, notEngine>>

EngineNext ==
    \/ Run
    \/ \E c \in Components : ConnectEnd(c)
    \/ StartStrategies
    \/ Wake
    \/ Signal
    \/ \E f \in Feeds : FeedEvent(f)

-----------------------------------------------------------------------------
(* score_graduation (fathom/strategies/graduation_sniper.py), applied to   *)
(* one event whose signals are then changed, one signal at a time, the     *)
(* event being scored again after each change.                             *)

\* The event whose optional fields are all unknown, one with every signal
\* known, one with every signal in its lowest band and one with every
\* signal in its highest band.
ScoreBaselines ==
    { Grad("M1", 0, TRUE, 0, 0, 0, 0, 0, 0, 0, 0, 0, 0, 0, 0),
      Grad("M1", 1, TRUE, 50, 50, 5, 10, 40, 8, 10, 100, 70, 500000, 10000, 2000),
      Grad("M1", 1, TRUE, 0, 10, -20, -40, 81, 12, 60, 20, 70, 5000000, 2000, 100),
      Grad("M1", 1, TRUE, 10, 0, 20, 60, 10, 0, 0, 600, 70, 50000, 60000, 12000) }

\* buys_1h and sells_1h, on both sides of every band of the ratio.
Flows == {<<0, 0>>, <<0, 10>>, <<34, 66>>, <<35, 65>>, <<45, 55>>, <<55, 45>>, <<56, 44>>, <<13, 7>>, <<66, 34>>, <<10, 0>>}

\* top10_concentration, on both sides of every band.
Top10s == {0, 10, 30, 50, 51, 80, 81}

\* The other signals, on both sides of their bands.
SignalValues ==
    [price_change_5m |-> {-20, -5, 0, 5, 20},
     price_change_1h |-> {-40, 0, 60},
     dev_holdings_pct |-> {0, 3, 8, 12},
     sniper_count |-> {0, 10, 30, 60},
     holder_count |-> {0, 20, 100, 600},
     market_cap_usd |-> {0, 50000, 500000, 5000000},
     liquidity_usd |-> {0, 2000, 10000, 60000},
     initial_price_usd |-> {0, 1},
     txns_24h |-> {0, 100, 500, 2000, 6000, 12000}]

\* ScoreBreakdown(): the defaults.
NewBreakdown == [momentum |-> 0, quality |-> 0, liquidity |-> 0, activity |-> 0, freshness |-> 0, total |-> 0]

\* What score_graduation returns.
ScoreBreakdownOf(e) == [momentum |-> Momentum(e), quality |-> Quality(e), liquidity |-> Liquidity(e), activity |-> Activity(e), freshness |-> 0, total |-> ScoreGraduation(e)]

ScoreStart ==
    /\ candidate \in ScoreBaselines
    /\ breakdown = NewBreakdown
    /\ prior = [op |-> "new", candidate |-> candidate, breakdown |-> NewBreakdown]
    /\ nchanges = 0

ScoreIdle ==
    /\ candidate = Grad("M1", 0, TRUE, 0, 0, 0, 0, 0, 0, 0, 0, 0, 0, 0, 0)
    /\ breakdown = NewBreakdown
    /\ prior = [op |-> "new", candidate |-> candidate, breakdown |-> NewBreakdown]
    /\ nchanges = 0

\* score_graduation(event), on the event as it is after the change.
Rescored(op, e) ==
    /\ prior.op # "new"
    /\ nchanges < MaxChanges
    /\ e # candidate
    /\ candidate' = e
    /\ breakdown' = ScoreBreakdownOf(e)
    /\ prior' = [op |-> op, candidate |-> candidate, breakdown |-> breakdown]
    /\ nchanges' = nchanges + 1
    /\ UNCHANGED notScore

\* score_graduation(event)
Score ==
    /\ prior.op = "new"
    /\ breakdown' = ScoreBreakdownOf(candidate)
    /\ prior' = [prior EXCEPT !.op = "score"]
    /\ UNCHANGED <<candidate, nchanges, notScore>>

ChangeFlow(f) == Rescored("flow", [candidate EXCEPT !.buys_1h = f[1], !.sells_1h = f[2]])

ChangeTop10(t) == Rescored("top10", [candidate EXCEPT !.top10_concentration = t])

ChangeSignal(field, v) == Rescored(field, [candidate EXCEPT ![field] = v])

ScoreNext ==
    \/ Score
    \/ \E f \in Flows : ChangeFlow(f)
    \/ \E t \in Top10s : ChangeTop10(t)
    \/ \E field \in DOMAIN SignalValues : \E v \in SignalValues[field] : ChangeSignal(field, v)

-----------------------------------------------------------------------------
(* PumpSwapAdapter._calculate_output (src/adapters/pumpswap/adapter.py):   *)
(* the constant-product output, in the integers of the code, called for    *)
(* one amount after another on a pool whose reserves do not change.        *)

FeeBps == 25

BpsScale == 10000

\* reserve_in and reserve_out, in base units of the two tokens.
Reserves == {0, 1, 100, 1000}

\* amount_in: the smallest amounts, and amounts on which the fee is exact.
SwapAmounts == {1, 2, 3, 4, 5, 400, 401, 800, 2000, 4000}

\* A quotient that leaves the price impact out: amount * reserve_out over
\* reserve_in.
CalculateOutputAtSpot(amount_in, reserve_in, reserve_out) ==
    LET amount_after_fee == (amount_in * (BpsScale - FeeBps)) \div BpsScale
    IN  IF reserve_in = 0 THEN 0
        ELSE (amount_after_fee * reserve_out) \div reserve_in

\* _calculate_output
CalculateOutput(amount_in, reserve_in, reserve_out) ==
    LET amount_after_fee == (amount_in * (BpsScale - FeeBps)) \div BpsScale
        numerator == amount_after_fee * reserve_out
        denominator == reserve_in + amount_after_fee
    IN  IF denominator = 0 THEN 0
        ELSE numerator \div denominator

NoSwap == [amount_in |-> 0, out |-> 0]

SwapStart ==
    /\ pool \in [reserve_in : Reserves, reserve_out : Reserves]
    /\ swap = [calls |-> 0, last |-> NoSwap, before |-> NoSwap]

SwapIdle ==
    /\ pool = [reserve_in |-> 0, reserve_out |-> 0]
    /\ swap = [calls |-> 0, last |-> NoSwap, before |-> NoSwap]

\* self._calculate_output(amount_in, reserve_in, reserve_out)
Quote(a) ==
    /\ swap.calls < MaxQuotes
    /\ swap' = [calls |-> swap.calls + 1,
                last |-> [amount_in |-> a, out |-> CalculateOutput(a, pool.reserve_in, pool.reserve_out)],
                before |-> swap.last]
    /\ UNCHANGED <<pool, notSwap>>

SwapNext == \E a \in SwapAmounts : Quote(a)

-----------------------------------------------------------------------------
(* Order.record_fill (fathom/core/orders.py), called on one order with one *)
(* fill after another.                                                     *)

\* price and quantity of the fills recorded.
VwapPrices == {1, 2, 3, 5}

FillsStart ==
    /\ filling = NewOrder(Args("T", "SELL", "MARKET", 28, 0, 0, 5, "GTC", 0, 0))
    /\ notional = 0

FillsIdle ==
    /\ filling = NewOrder(Args("T", "SELL", "MARKET", 28, 0, 0, 5, "GTC", 0, 0))
    /\ notional = 0

\* order.record_fill(price, quantity)
RecordFillCall(price, qty) ==
    /\ Len(filling.fills) < MaxFills
    /\ filling' = RecordFill(filling, price, qty)
    /\ notional' = notional + price * qty
    /\ UNCHANGED notFills

FillsNext == \E price \in VwapPrices, qty \in FillQtys : RecordFillCall(price, qty)

-----------------------------------------------------------------------------
(* TradeJournal (fathom/core/metrics.py): record and _match_round_trip.    *)
(* The trades are recorded at the times 1, 2, 3, ...; fees are the default *)
(* 0.                                                                      *)

JournalTokens == {"T", "U"}

JournalSides == {"buy", "sell"}

JournalPrices == {2, 5}

JournalQuantities == {1, 3}

InitialEquity == 10000

\* TradeRecord(...)
TradeRecord(token, side, price, quantity, timestamp_s) == [token |-> token, side |-> side, price |-> price, quantity |-> quantity, notional_usd |-> price * quantity, timestamp_s |-> timestamp_s]

\* TradeJournal(): _open_buys has no key yet; a token without a key has no
\* open buy.
NewJournal == [trades |-> <<>>, round_trips |-> <<>>, open_buys |-> [t \in JournalTokens |-> <<>>], current_equity |-> InitialEquity, equity_curve |-> <<InitialEquity>>]

\* A matching that takes the open buy recorded last.
PickNewest(buys) == Len(buys)

\* buys.pop(0): the place of the open buy a sell is matched with.
Pick(buys) == 1

\* The list without its i-th element.
Without(seq, i) == SubSeq(seq, 1, i - 1) \o SubSeq(seq, i + 1, Len(seq))

\* TradeJournal._match_round_trip
MatchRoundTrip(j, sell) ==
    LET buys == j.open_buys[sell.token]
    IN  IF buys = <<>> THEN j
        ELSE LET buy == buys[Pick(buys)]
                 qty == Min(buy.quantity, sell.quantity)
                 pnl == qty * (sell.price - buy.price)
                 rt == [token |-> sell.token, entry_price |-> buy.price, exit_price |-> sell.price,
                        quantity |-> qty, pnl_usd |-> pnl,
                        hold_seconds |-> sell.timestamp_s - buy.timestamp_s,
                        entry_time |-> buy.timestamp_s, exit_time |-> sell.timestamp_s]
             IN  [j EXCEPT !.open_buys[sell.token] = Without(buys, Pick(buys)),
                           !.round_trips = Append(@, rt),
                           !.current_equity = @ + pnl,
                           !.equity_curve = Append(@, j.current_equity + pnl)]

\* TradeJournal.record
RecordOp(j, token, side, price, quantity) ==
    LET rec == TradeRecord(token, side, price, quantity, Len(j.trades) + 1)
        j1 == [j EXCEPT !.trades = Append(@, rec)]
    IN  IF side = "buy" THEN [j1 EXCEPT !.open_buys[token] = Append(@, rec)]
        ELSE IF side = "sell" THEN MatchRoundTrip(j1, rec)
        ELSE j1

JournalStart ==
    /\ journal = NewJournal
    /\ jbefore = NewJournal

JournalIdle ==
    /\ journal = NewJournal
    /\ jbefore = NewJournal

\* journal.record(token, side, price, quantity)
RecordTrade(token, side, price, quantity) ==
    /\ Len(journal.trades) < MaxTrades
    /\ journal' = RecordOp(journal, token, side, price, quantity)
    /\ jbefore' = journal
    /\ UNCHANGED notJournal

JournalNext == \E token \in JournalTokens, side \in JournalSides, price \in JournalPrices, quantity \in JournalQuantities : RecordTrade(token, side, price, quantity)

-----------------------------------------------------------------------------
(* The live adapters: JupiterAdapter and PumpSwapAdapter, submit_order and  *)
(* _execute_and_report                                                      *)

LiveAdapters == {"jupiter", "pumpswap"}

\* The order intents (ORDER_SUBMITTED events) an adapter is handed.
Intents == 1..MaxIntents

\* A range that has its end among its values.
RangeInclusive(n) == 0..n

\* range(self.max_retries): the values of attempt.
Range(n) == 0..(n - 1)

\* The wait after a failed attempt, in half seconds: 2 ** attempt seconds
\* in JupiterAdapter, 0.5 * (attempt + 1) seconds in PumpSwapAdapter.
Backoff(adapter, attempt) == IF adapter = "jupiter" THEN 2 * Pow2(attempt) ELSE attempt + 1

\* A task of _execute_and_report: where it is, the loop variable, the
\* outcome of each attempt made, the sleeps.
NewTask == [pc |-> "none", attempt |-> 0, outcomes |-> <<>>, waits |-> <<>>]

\* The OrderUpdate the adapter publishes for an intent.
OrderUpdate(type, i) == [event_type |-> type, source |-> live.name, intent |-> i]

\* The for statement takes the next value of attempt, or the loop is over
\* and submit_order raises, which _execute_and_report reports.
ForAttempt(i, t, next) ==
    IF next \in Range(live.max_retries)
    THEN /\ tasks' = [tasks EXCEPT ![i] = [t EXCEPT !.pc = "attempt", !.attempt = next]]
         /\ UNCHANGED lbus
    ELSE /\ tasks' = [tasks EXCEPT ![i] = [t EXCEPT !.pc = "done"]]
         /\ lbus' = Append(lbus, OrderUpdate("ORDER_REJECTED", i))

SubmitStart ==
    /\ live \in [name : LiveAdapters, max_retries : 0..MaxRetries]
    /\ tasks = [i \in Intents |-> NewTask]
    /\ lbus = <<>>

SubmitIdle ==
    /\ live = [name |-> "jupiter", max_retries |-> 0]
    /\ tasks = <<>>
    /\ lbus = <<>>

\* _handle_order: loop.create_task(self._execute_and_report(order, source)).
HandleOrder(i) ==
    /\ tasks[i].pc = "none"
    /\ tasks' = [tasks EXCEPT ![i].pc = "created"]
    /\ UNCHANGED <<live, lbus, notSubmit>>

\* The task starts: submit_order up to its loop. The mints are resolved
\* (Jupiter) or the pool address, wallet and pool state are there
\* (PumpSwap), or submit_order raises before any attempt.
Begin(i, ok) ==
    /\ tasks[i].pc = "created"
    /\ IF ok
       THEN ForAttempt(i, tasks[i], 0)
       ELSE /\ tasks' = [tasks EXCEPT ![i].pc = "done"]
            /\ lbus' = Append(lbus, OrderUpdate("ORDER_REJECTED", i))
    /\ UNCHANGED <<live, notSubmit>>

\* One attempt ends: the quote and the swap (the bundle or the RPC call)
\* came back, submit_order returns and the fill is published; or one of
\* them raised, and the task sleeps if this was not the last attempt.
AttemptEnd(i, ok) ==
    /\ tasks[i].pc = "attempt"
    /\ LET t == [tasks[i] EXCEPT !.outcomes = Append(@, ok)]
       IN IF ok
          THEN /\ tasks' = [tasks EXCEPT ![i] = [t EXCEPT !.pc = "done"]]
               /\ lbus' = Append(lbus, OrderUpdate("ORDER_FILLED", i))
          ELSE IF t.attempt < live.max_retries - 1
               THEN /\ tasks' = [tasks EXCEPT ![i] =
                                   [t EXCEPT !.pc = "sleep",
                                             !.waits = Append(@, Backoff(live.name, t.attempt))]]
                    /\ UNCHANGED lbus
               ELSE ForAttempt(i, t, t.attempt + 1)
    /\ UNCHANGED <<live, notSubmit>>

\* asyncio.sleep returns: the next attempt.
Slept(i) ==
    /\ tasks[i].pc = "sleep"
    /\ ForAttempt(i, tasks[i], tasks[i].attempt + 1)
    /\ UNCHANGED <<live, notSubmit>>

SubmitNext ==
    \/ \E i \in Intents : HandleOrder(i)
    \/ \E i \in Intents, ok \in BOOLEAN : Begin(i, ok)
    \/ \E i \in Intents, ok \in BOOLEAN : AttemptEnd(i, ok)
    \/ \E i \in Intents : Slept(i)

-----------------------------------------------------------------------------
(* FillSimulator: sell-side trailing stops, tick by tick                    *)

\* Two orders built by Order.trailing_stop for the same token, with trail
\* offsets of a half and of a quarter.
TrailOrders ==
    [id \in OrderIds |->
        NewOrder(Args("T", "SELL", "TRAILING_STOP", 2, 0, 0,
                      IF id = "o1" THEN 50 ELSE 25, "GTC", 0, 0))]

\* The prices of the ticks: 2 is half of 4, and 3 is three quarters of 4.
TrailPrices == {1, 2, 3, 4}

TrailStart ==
    /\ tsim = Bk(TrailOrders, {}, <<>>, [id \in OrderIds |-> 0], FALSE)
    /\ ticked = [n |-> 0, by |-> [id \in OrderIds |-> <<>>]]

TrailIdle ==
    /\ tsim = <<>>
    /\ ticked = <<>>

\* book.submit(order), for an order not submitted before.
TrailSubmit(id) ==
    /\ tsim.os[id].status = "PENDING"
    /\ tsim' = SubmitOp(tsim, id)
    /\ UNCHANGED <<ticked, notTrail>>

\* simulator.on_price(token, price). ticked keeps, for every order, the
\* prices ticked for its token while the book had it as active.
TrailTick(token, price) ==
    /\ ticked.n < MaxTicks
    /\ tsim' = OnPriceOp(tsim, token, price)
    /\ ticked' = [n |-> ticked.n + 1,
                  by |-> [id \in OrderIds |->
                            IF tsim.os[id].token = token /\ InSeq(tsim.act, id)
                            THEN Append(ticked.by[id], price)
                            ELSE ticked.by[id]]]
    /\ UNCHANGED notTrail

TrailNext ==
    \/ \E id \in OrderIds : TrailSubmit(id)
    \/ \E t \in Tokens, p \in TrailPrices : TrailTick(t, p)

-----------------------------------------------------------------------------
(* Specifications                                                          *)

Idle(started) ==
    /\ "bus" \in started \/ BusIdle
    /\ "book" \in started \/ BookIdle
    /\ "trade" \in started \/ TradeIdle
    /\ "backtest" \in started \/ BacktestIdle
    /\ "breaker" \in started \/ BreakerIdle
    /\ "exposure" \in started \/ ExposureIdle
    /\ "engine" \in started \/ EngineIdle
    /\ "score" \in started \/ ScoreIdle
    /\ "swap" \in started \/ SwapIdle
    /\ "fills" \in started \/ FillsIdle
    /\ "journal" \in started \/ JournalIdle
    /\ "submit" \in started \/ SubmitIdle
    /\ "trail" \in started \/ TrailIdle

BusInit == BusStart /\ Idle({"bus"})
BookInit == BookStart /\ Idle({"book"})
TradeInit == TradeStart /\ Idle({"trade"})
BacktestInit == BacktestStart /\ Idle({"backtest"})
BreakerInit == BreakerStart /\ Idle({"breaker"})
ExposureInit == ExposureStart /\ Idle({"exposure"})
EngineInit == EngineStart /\ Idle({"engine"})
ScoreInit == ScoreStart /\ Idle({"score"})
SwapInit == SwapStart /\ Idle({"swap"})
FillsInit == FillsStart /\ Idle({"fills"})
JournalInit == JournalStart /\ Idle({"journal"})
SubmitInit == SubmitStart /\ Idle({"submit"})
TrailInit == TrailStart /\ Idle({"trail"})

SpecBus == BusInit /\ [][BusNext]_vars

\* The interpreter does not stop in the middle of a call.
SpecBusFair == SpecBus /\ WF_vars(Dispatch)

SpecBook == BookInit /\ [][BookNext]_vars

SpecTrade == TradeInit /\ [][TradeNext]_vars

\* The same, with a sniper that holds one position at most.
TradeFewInit == TradeStartFew /\ Idle({"trade"})
TradeAloneInit == TradeStartAlone /\ Idle({"trade"})

SpecTradeFew == TradeFewInit /\ [][TradeNext]_vars

SpecTradeAlone == TradeAloneInit /\ [][TradeAloneNext]_vars

\* Two executions of BacktestRunner.run on one input.
SpecBacktest == BacktestInit /\ [][BacktestNext]_vars

SpecBreaker == BreakerInit /\ [][BreakerNext]_vars

SpecExposure == ExposureInit /\ [][ExposureNext]_vars

SpecEngine == EngineInit /\ [][EngineNext]_vars

SpecScore == ScoreInit /\ [][ScoreNext]_vars

SpecSwap == SwapInit /\ [][SwapNext]_vars

SpecFills == FillsInit /\ [][FillsNext]_vars

SpecJournal == JournalInit /\ [][JournalNext]_vars

SpecSubmit == SubmitInit /\ [][SubmitNext]_vars

SpecTrail == TrailInit /\ [][TrailNext]_vars

-----------------------------------------------------------------------------
(* Reading the history of a dispatch.                                      *)

LogAt(t, ev) == {i \in DOMAIN log : log[i].t = t /\ log[i].ev = ev}
PublishedAt(ev) == CHOOSE i \in DOMAIN log : log[i].t = "publish" /\ log[i].ev = ev
HasReturned(ev) == LogAt("return", ev) # {}
ReturnedAt(ev) == CHOOSE j \in DOMAIN log : log[j].t = "return" /\ log[j].ev = ev

\* The handler list of the event's kind when publish(ev) was entered.
Snap(ev) == log[PublishedAt(ev)].hs

HandlersOf(es) == [i \in 1..Len(es) |-> es[i].h]

\* The handlers called with ev / that returned or raised for ev, in order,
\* among the entries after position from.
StartsAfter(ev, from) ==
    HandlersOf(SelectSeq(SubSeq(log, from + 1, Len(log)),
                         LAMBDA e : e.t = "start" /\ e.ev = ev))
Starts(ev) == StartsAfter(ev, 0)
Ends(ev) ==
    HandlersOf(SelectSeq(log, LAMBDA e : e.t \in {"end", "fail"} /\ e.ev = ev))

\* publish(ev) has returned and the handler list of its kind was not changed
\* while it ran.
Undisturbed(ev) ==
    /\ HasReturned(ev)
    /\ ~ \E i \in PublishedAt(ev)..ReturnedAt(ev) :
            log[i].t = "unsub" /\ log[i].kind = log[PublishedAt(ev)].kind

Events == {log[i].ev : i \in DOMAIN log}

-----------------------------------------------------------------------------
(* Claims about the event bus.                                             *)

\* C1: when publish(ev) has returned and nobody subscribed or unsubscribed
\* during the dispatch, the handlers called with ev are exactly the handlers
\* subscribed to its kind, in subscription order, once per subscription, and
\* each of them has finished.
C1_SubscriptionOrder ==
    \A ev \in Events :
        Undisturbed(ev) => /\ Starts(ev) = Snap(ev)
                           /\ Ends(ev) = Snap(ev)

\* A dispatch to three subscriptions, two of them of the same handler, is over.
C1_Witness ==
    /\ stack = <<>>
    /\ \E ev \in Events :
          /\ Undisturbed(ev)
          /\ Len(Snap(ev)) = 3
          /\ Snap(ev)[1] = Snap(ev)[3]
          /\ Snap(ev)[1] # Snap(ev)[2]

\* C2: a handler that raises does not keep the handlers subscribed after it
\* from being called with the same event, and the error count is the number
\* of handler failures.
C2_ErrorIsolation ==
    /\ error_count = failures
    /\ \A i \in DOMAIN log :
          (log[i].t = "fail" /\ Undisturbed(log[i].ev)) =>
             LET ev == log[i].ev
                 k == Len(Starts(ev)) - Len(StartsAfter(ev, i))
             IN StartsAfter(ev, i) = SubSeq(Snap(ev), k + 1, Len(Snap(ev)))

\* A handler raised and two handlers subscribed after it ran.
C2_Witness ==
    /\ stack = <<>>
    /\ error_count >= 1
    /\ \E i \in DOMAIN log :
          /\ log[i].t = "fail"
          /\ Undisturbed(log[i].ev)
          /\ Len(StartsAfter(log[i].ev, i)) = 2

ErrorReports == {i \in DOMAIN log : /\ log[i].t = "publish"
                                    /\ log[i].kind = "ERROR"
                                    /\ log[i].by # 0}

\* C3 (what happens): a failure while dispatching an event that is not an
\* error event is followed at once by the publish of one error event, which
\* the error subscribers get; a failure while dispatching an error event
\* publishes nothing.
C3_Reports ==
    /\ \A i \in DOMAIN log :
          log[i].t = "fail" =>
             IF log[i].kind # "ERROR"
             THEN /\ i + 1 \in ErrorReports
                  /\ log[i + 1].by = log[i].ev
                  /\ Undisturbed(log[i + 1].ev) =>
                        Starts(log[i + 1].ev) = Snap(log[i + 1].ev)
             ELSE \A j \in DOMAIN log : log[j].t = "publish" => log[j].by # log[i].ev
    /\ Cardinality(ErrorReports)
         = Cardinality({i \in DOMAIN log : log[i].t = "fail" /\ log[i].kind # "ERROR"})

\* C3: the above, and every publish returns.
C3_ErrorEvents == [] C3_Reports /\ ((stack # <<>>) ~> (stack = <<>>))

\* A failure was reported to two error subscribers, both of which failed, and
\* the outermost publish has returned.
C3_Witness ==
    /\ stack = <<>>
    /\ \E i \in ErrorReports :
          /\ log[i].hs = <<"bad", "bad">>
          /\ HasReturned(log[i].ev)
          /\ Ends(log[i].ev) = <<"bad", "bad">>

\* C4: once a handler called with ev has published ev2, nothing more happens
\* for ev (no handler after it is called, and it does not return) before
\* publish(ev2) has returned, having called every handler of ev2's kind.
C4_DepthFirst ==
    \A i \in DOMAIN log :
        (log[i].t = "publish" /\ log[i].by # 0) =>
            \A k \in (i + 1)..Len(log) :
                log[k].ev = log[i].by =>
                    /\ HasReturned(log[i].ev)
                    /\ ReturnedAt(log[i].ev) < k
                    /\ Undisturbed(log[i].ev) =>
                          /\ Starts(log[i].ev) = Snap(log[i].ev)
                          /\ Ends(log[i].ev) = Snap(log[i].ev)

\* nest published a SIGNAL event to a subscriber and, after that publish had
\* returned, the handler subscribed after nest was called.
C4_Witness ==
    /\ stack = <<>>
    /\ \E i \in DOMAIN log :
          /\ log[i].t = "publish"
          /\ log[i].h = "nest"
          /\ log[i].hs # <<>>
          /\ \E k \in (i + 1)..Len(log) :
                /\ log[k].t = "start"
                /\ log[k].ev = log[i].by

-----------------------------------------------------------------------------
(* The order book: claims                                                  *)

\* Positions of the statuses along PENDING -> SUBMITTED -> ACCEPTED ->
\* PARTIALLY_FILLED -> FILLED.
ChainRank(s) ==
    CASE s = "PENDING" -> 0
      [] s = "SUBMITTED" -> 1
      [] s = "ACCEPTED" -> 2
      [] s = "PARTIALLY_FILLED" -> 3
      [] s = "FILLED" -> 4
      [] OTHER -> 5

Chain == {"PENDING", "SUBMITTED", "ACCEPTED", "PARTIALLY_FILLED", "FILLED"}

\* A status change the state machine allows. A step forward along the chain
\* that passes over a status (SUBMITTED to FILLED) is counted as allowed.
AllowedChange(s, t) ==
    \/ s \in Chain /\ t \in Chain /\ ChainRank(s) < ChainRank(t)
    \/ t = "REJECTED" /\ s \notin TerminalStatuses
    \/ t \in {"CANCELLED", "EXPIRED"} /\ s \in ActiveStatuses

\* C5: once an order is FILLED, CANCELLED, REJECTED or EXPIRED, no operation
\* of the order book (submit, cancel, try_fill, cancel_all, a price tick of
\* the fill simulator) changes its status, its filled quantity or its fills.
C5_TerminalIsFinal ==
    [][\A id \in OrderIds :
          orders[id].status \in TerminalStatuses =>
             /\ orders'[id].status = orders[id].status
             /\ orders'[id].filled_quantity = orders[id].filled_quantity
             /\ orders'[id].fills = orders[id].fills]_vars

\* C6: every change of an order's status follows the state machine:
\* forward along PENDING, SUBMITTED, ACCEPTED, PARTIALLY_FILLED, FILLED, to
\* REJECTED only from a status that is not terminal, to CANCELLED or EXPIRED
\* only from an active status.
C6_StateMachine ==
    [][\A id \in OrderIds :
          orders'[id].status # orders[id].status =>
             AllowedChange(orders[id].status, orders'[id].status)]_vars

\* C7: filled_quantity never decreases and never exceeds quantity; a fill
\* request is clipped to the remaining quantity; a fill makes the order
\* FILLED exactly when nothing remains, and PARTIALLY_FILLED otherwise.
C7_FillAccounting ==
    [][\A id \in OrderIds :
          /\ orders'[id].filled_quantity >= orders[id].filled_quantity
          /\ orders'[id].filled_quantity <= orders'[id].quantity
          /\ Len(orders'[id].fills) > Len(orders[id].fills) =>
                /\ orders'[id].fills[Len(orders'[id].fills)].quantity
                      <= RemainingQuantity(orders[id])
                /\ orders'[id].status =
                      IF RemainingQuantity(orders'[id]) = 0
                      THEN "FILLED" ELSE "PARTIALLY_FILLED"]_vars

\* The parts of C7 that hold in floating point: what is filled never
\* decreases, a fill is never larger than what remained, and the status
\* after a fill is FILLED exactly when nothing remains.
FillsMonotoneAndClipped ==
    [][\A id \in OrderIds :
          /\ orders'[id].filled_quantity >= orders[id].filled_quantity
          /\ Len(orders'[id].fills) > Len(orders[id].fills) =>
                /\ orders'[id].fills[Len(orders'[id].fills)].quantity
                      <= RemainingQuantity(orders[id])
                /\ orders'[id].status =
                      IF RemainingQuantity(orders'[id]) = 0
                      THEN "FILLED" ELSE "PARTIALLY_FILLED"]_vars

\* C8: submit(order) on an order that fails validation sets REJECTED,
\* returns a non-empty list of errors and leaves the book as it was (the
\* order is not stored and not added to the active ids); on an order that
\* passes it sets SUBMITTED, appends the id to the active ids and returns an
\* empty list.
C8_Submit ==
    [][ret'.op = "submit" =>
          LET id == ret'.id
          IN IF Validate(orders[id]) # <<>>
             THEN /\ orders'[id].status = "REJECTED"
                  /\ ret'.val # <<>>
                  /\ stored' = stored
                  /\ active_ids' = active_ids
                  /\ id \notin stored'
                  /\ ~InSeq(active_ids', id)
             ELSE /\ orders'[id].status = "SUBMITTED"
                  /\ active_ids' = Append(active_ids, id)
                  /\ id \in stored'
                  /\ ret'.val = <<>>]_vars

\* One order was refused and is not in the book, another was admitted by
\* the last call.
C8_Witness ==
    /\ ret.op = "submit"
    /\ ret.val = <<>>
    /\ \E bad \in OrderIds, good \in OrderIds :
          /\ orders[bad].status = "REJECTED"
          /\ bad \notin stored
          /\ ~InSeq(active_ids, bad)
          /\ good = ret.id
          /\ orders[good].status = "SUBMITTED"
          /\ InSeq(active_ids, good)

-----------------------------------------------------------------------------
(* The paper adapter and the sniper: claims                                *)

\* The positions in a sequence of events of the events of one type.
EventsOf(evs, type) == {i \in DOMAIN evs : evs[i].type = type}

\* The buy orders the adapter received during the step.
BuysReceived(evs) == {i \in EventsOf(evs, "ORDER_SUBMITTED") : evs[i].side = "buy"}

\* A buy that exceeds the balance: order-rejected follows, no order-filled
\* is published, and balance, positions and fill count stay.
Refused(i) ==
    /\ i + 1 \in EventsOf(published', "ORDER_REJECTED")
    /\ published'[i + 1].token_in = published'[i].token
    /\ EventsOf(published', "ORDER_FILLED") = {}
    /\ paper'.balance_usd = paper.balance_usd
    /\ paper'.positions = paper.positions
    /\ paper'.fill_count = paper.fill_count

\* What the step added to the adapter's position in a token.
Bought(token) == Get(paper'.positions, token, 0) - Get(paper.positions, token, 0)

\* C9, as stated: a buy with amount_usd above the balance is refused (see
\* Refused); any other buy lowers the balance by amount_usd and raises the
\* position by amount_usd / last price.
C9_BuyAsStated ==
    [][\A i \in BuysReceived(published') :
          LET ev == published'[i]
              price == Get(paper.last_prices, ev.token, 0)
          IN IF ev.amount_usd > paper.balance_usd
             THEN Refused(i)
             ELSE /\ paper'.balance_usd = paper.balance_usd - ev.amount_usd
                  /\ Bought(ev.token) * price = ev.amount_usd]_vars

\* C9, amended: as stated, but the position rises by amount_usd / last
\* price when a positive last price of the token is known, and by
\* amount_usd when none is.
C9_Buy ==
    [][\A i \in BuysReceived(published') :
          LET ev == published'[i]
              price == Get(paper.last_prices, ev.token, 0)
          IN IF ev.amount_usd > paper.balance_usd
             THEN Refused(i)
             ELSE /\ paper'.balance_usd = paper.balance_usd - ev.amount_usd
                  /\ paper'.fill_count = paper.fill_count + 1
                  /\ i + 1 \in EventsOf(published', "ORDER_FILLED")
                  /\ price > 0 => Bought(ev.token) * price = ev.amount_usd
                  /\ price <= 0 => Bought(ev.token) = ev.amount_usd]_vars

\* A buy above the balance has just been refused, after a buy of 40 USD
\* of a token with no known price was filled one to one.
C9_Witness ==
    /\ Len(published) = 2
    /\ published[1].type = "ORDER_SUBMITTED"
    /\ published[1].side = "buy"
    /\ published[1].amount_usd > paper.balance_usd
    /\ published[2].type = "ORDER_REJECTED"
    /\ "M1" \notin DOMAIN paper.last_prices
    /\ Get(paper.positions, "M1", 0) = 40 * Unit
    /\ paper.balance_usd = (InitialBalanceUsd - 40) * Unit
    /\ paper.fill_count = 1

\* The first exit condition, in the order take-profit, stop-loss,
\* trailing-stop, timeout, that holds for a position at a price; "none" if
\* none does.
FirstExit(pos, price, now) ==
    LET high == Max(pos.highest_price, price)
        gain == (price - pos.entry_price) * 100
    IN IF gain >= TakeProfitPct * pos.entry_price THEN "take_profit"
       ELSE IF gain <= (0 - StopLossPct) * pos.entry_price THEN "stop_loss"
       ELSE IF /\ (high - pos.entry_price) * 100 >= TrailingActivatePct * pos.entry_price
               /\ (high - price) * 100 >= TrailingStopPct * high
            THEN "trailing_stop"
       ELSE IF now - pos.entered_at >= MaxHoldSeconds THEN "timeout"
       ELSE "none"

\* C10: on a price update with a positive price for a held token, the
\* first exit condition that holds, in the order take-profit, stop-loss,
\* trailing-stop, timeout, makes the sniper publish exactly one sell order,
\* for all the tokens of the position, add one to the counter of that exit
\* and remove the position; when none holds it publishes nothing and keeps
\* the position.
C10_ExitPriority ==
    [][(/\ published' # <<>>
        /\ published'[1].type = "PRICE_UPDATE"
        /\ published'[1].price_usd > 0
        /\ published'[1].token \in DOMAIN sniper.positions) =>
          LET mint == published'[1].token
              pos == sniper.positions[mint]
              reason == FirstExit(pos, published'[1].price_usd, clock)
              sent == EventsOf(published', "ORDER_SUBMITTED")
          IN IF reason # "none"
             THEN /\ Cardinality(sent) = 1
                  /\ \A i \in sent :
                        /\ published'[i].side = "sell"
                        /\ published'[i].token = mint
                        /\ published'[i].amount = pos.amount_tokens
                  /\ sniper'.exits = [sniper.exits EXCEPT ![reason] = @ + 1]
                  /\ DOMAIN sniper'.positions = DOMAIN sniper.positions \ {mint}
             ELSE /\ sent = {}
                  /\ Len(published') = 1
                  /\ sniper'.exits = sniper.exits
                  /\ DOMAIN sniper'.positions = DOMAIN sniper.positions]_vars

\* A price update has just closed a position by the trailing stop: one
\* sell order went out, the position is gone.
C10_Witness ==
    /\ Len(published) = 3
    /\ published[1].type = "PRICE_UPDATE"
    /\ published[1].price_usd > 0
    /\ published[2].type = "ORDER_SUBMITTED"
    /\ published[2].side = "sell"
    /\ published[2].token = published[1].token
    /\ published[1].token \notin DOMAIN sniper.positions
    /\ sniper.exits["trailing_stop"] = 1

\* The step is the publication of a graduation.
GraduationStep ==
    /\ published' # <<>>
    /\ published'[1].type = "SIGNAL"
    /\ published'[1].signal = "graduation"

\* C11: the sniper never holds more than max_positions positions, its
\* positions are one per mint, and a graduation for a mint it holds, or one
\* that arrives while it holds max_positions positions, publishes no order
\* and leaves the positions as they are.
C11_PositionCap ==
    /\ [](/\ Cardinality(DOMAIN sniper.positions) <= sniper.max_positions
          /\ DOMAIN sniper.positions \subseteq Mints)
    /\ [][(/\ GraduationStep
           /\ \/ published'[1].mint \in DOMAIN sniper.positions
              \/ Cardinality(DOMAIN sniper.positions) >= sniper.max_positions) =>
             /\ EventsOf(published', "ORDER_SUBMITTED") = {}
             /\ sniper'.positions = sniper.positions
             /\ sniper'.passed = sniper.passed
             /\ paper' = paper]_vars

\* The sniper holds max_positions positions, and a graduation of a mint it
\* does not hold, one that passes every filter and scores 100, has just been
\* turned away with no order.
C11_Witness ==
    /\ Cardinality(DOMAIN sniper.positions) = sniper.max_positions
    /\ Len(published) = 1
    /\ published[1].type = "SIGNAL"
    /\ published[1].signal = "graduation"
    /\ published[1].mint \notin DOMAIN sniper.positions
    /\ published[1].metrics
    /\ published[1].initial_price_usd > 0
    /\ ScoreGraduation(published[1]) = 100
    /\ published[1].liquidity_usd >= MinLiquidity
    /\ sniper.filtered >= 1

\* The hard filters of _on_graduation refuse the graduation.
HardFiltered(e) ==
    /\ e.metrics
    /\ \/ e.liquidity_usd > 0 /\ e.liquidity_usd < MinLiquidity
       \/ e.liquidity_usd > 0 /\ Mcap(e) > MaxMcapLiqRatio * e.liquidity_usd
       \/ e.top10_concentration > MaxTop10Concentration

\* The step published no order and opened no position.
NoEntry ==
    /\ EventsOf(published', "ORDER_SUBMITTED") = {}
    /\ DOMAIN sniper'.positions \subseteq DOMAIN sniper.positions

\* C12: a graduation with no initial price above zero, with fewer holders
\* than min_holders, with less SOL raised than min_sol_raised, or refused
\* by a hard filter, gives no order-submitted event and no new position.
C12_EntryFilters ==
    [][(/\ GraduationStep
        /\ \/ published'[1].initial_price_usd <= 0
           \/ published'[1].holder_count < MinHolders
           \/ published'[1].sol_raised < MinSolRaised
           \/ HardFiltered(published'[1])) => NoEntry]_vars

\* The filters _on_graduation applies: no initial price above zero, a hard
\* filter, or a score below min_score give no order and no new position,
\* and count the graduation as filtered.
FiltersApplied ==
    [][(/\ GraduationStep
        /\ published'[1].mint \notin DOMAIN sniper.positions
        /\ ~AtCapacity(sniper)
        /\ \/ published'[1].initial_price_usd <= 0
           \/ HardFiltered(published'[1])
           \/ published'[1].metrics /\ ScoreGraduation(published'[1]) < MinScore) =>
          /\ NoEntry
          /\ sniper'.filtered = sniper.filtered + 1]_vars

\* The step is the publication of a sale by the dev of a mint the sniper
\* holds.
DevSellStep ==
    /\ published' # <<>>
    /\ published'[1].type = "SIGNAL"
    /\ published'[1].signal = "dev_activity"
    /\ published'[1].action = "sell"
    /\ published'[1].mint \in DOMAIN sniper.positions

\* The step sold the position in mint with one order, counted a dev_sell
\* exit and removed the position.
DevSellExit(mint) ==
    LET sent == EventsOf(published', "ORDER_SUBMITTED")
    IN /\ sent = {2}
       /\ published'[2].side = "sell"
       /\ published'[2].token = mint
       /\ published'[2].amount = sniper.positions[mint].amount_tokens
       /\ sniper'.exits = [sniper.exits EXCEPT !["dev_sell"] = @ + 1]
       /\ DOMAIN sniper'.positions = DOMAIN sniper.positions \ {mint}

\* The step booked the exit of the position in mint at the price.
BookedAt(mint, price) ==
    LET pos == sniper.positions[mint]
    IN sniper'.pnl = sniper.pnl + pos.amount_tokens * (price - pos.entry_price)

\* A price update for the mint has arrived since the entry and the last
\* one is the adapter's last price: the peak of the position is above the
\* entry price, and the adapter's last price is none that set_price seeds.
LastUpdateKnown(mint) ==
    /\ sniper.positions[mint].highest_price > sniper.positions[mint].entry_price
    /\ mint \in DOMAIN paper.last_prices
    /\ paper.last_prices[mint] \notin SeedPrices

\* C13: a sale by the dev of a held mint makes the sniper publish exactly
\* one sell order for the position, count one dev_sell exit, remove the
\* position and book the exit at the last price seen for the mint since the
\* entry. The formula asks for the booking only where the state tells that
\* price (see LastUpdateKnown).
C13_DevSell ==
    [][DevSellStep =>
         LET mint == published'[1].mint
         IN /\ DevSellExit(mint)
            /\ LastUpdateKnown(mint) => BookedAt(mint, paper.last_prices[mint])]_vars

\* What _on_dev_activity does: the exit is booked at the entry price,
\* whatever prices have been seen.
DevSellBooksEntryPrice ==
    [][DevSellStep =>
         LET mint == published'[1].mint
         IN /\ DevSellExit(mint)
            /\ BookedAt(mint, sniper.positions[mint].entry_price)
            /\ sniper'.pnl = sniper.pnl]_vars

-----------------------------------------------------------------------------
(* The backtest runner: claims                                             *)

\* The two executions have the same fill count, final balance and
\* histogram of exit reasons.
SameResults ==
    /\ runs[1].result.trades_entered = runs[2].result.trades_entered
    /\ runs[1].result.final_balance = runs[2].result.final_balance
    /\ runs[1].sn.exits = runs[2].sn.exits

\* C14: two executions of run() on the same records end with the same
\* fill count, the same final balance and the same histogram of exit
\* reasons, whatever their clocks read.
C14_Deterministic == cursor.at = "done" => SameResults

\* Two executions whose clocks read the same throughout end with the same
\* results, and so do any two that drive the scoring sniper, which opens no
\* position on the events run() builds.
SameClockSameResults ==
    (/\ cursor.at = "done"
     /\ \/ runs[1].clock = 0 /\ runs[2].clock = 0
        \/ strategy = "scoring") => SameResults

\* The entries of the history for the steps of one kind.
Steps(op) == {i \in DOMAIN replayed : replayed[i].op = op}

\* The records are replayed in ascending order of graduated_at, and within
\* a record the seeding comes first, then the graduation, then the prices.
RecordsInOrder ==
    /\ \A i, j \in Steps("graduation") :
          i < j => replayed[i].graduated_at <= replayed[j].graduated_at
    /\ \A i, j \in DOMAIN replayed : i < j => replayed[i].rec <= replayed[j].rec
    /\ \A i \in Steps("graduation") :
          LET rec == SortedData(data)[replayed[i].rec]
          IN /\ replayed[i].mint = rec.mint
             /\ rec.initial_price_usd > 0 =>
                   /\ i - 1 \in Steps("set_price")
                   /\ replayed[i - 1].rec = replayed[i].rec
                   /\ replayed[i - 1].mint = rec.mint
                   /\ replayed[i - 1].price = rec.initial_price_usd
    /\ \A i \in Steps("price") :
          \E j \in Steps("graduation") : j < i /\ replayed[j].rec = replayed[i].rec

\* C15: records are replayed in ascending graduated_at order; for each, the
\* adapter's last price is seeded with initial_price_usd (when there is
\* one), then the graduation is published, then the price updates of the
\* record, in ascending order of their timestamps.
C15_ReplayOrder ==
    /\ RecordsInOrder
    /\ \A i, j \in Steps("price") :
          (i < j /\ replayed[i].rec = replayed[j].rec) =>
             replayed[i].timestamp <= replayed[j].timestamp

\* The points of a price history that have a price, in the order of the
\* list.
RECURSIVE Priced(_)
Priced(h) ==
    IF h = <<>> THEN <<>>
    ELSE IF h[1].price > 0 THEN <<h[1]>> \o Priced(Tail(h))
    ELSE Priced(Tail(h))

\* The price updates published so far for a record.
RECURSIVE PricesOf(_, _)
PricesOf(steps, rec) ==
    IF steps = <<>> THEN <<>>
    ELSE IF steps[1].op = "price" /\ steps[1].rec = rec
         THEN <<Point(steps[1].timestamp, steps[1].price)>> \o PricesOf(Tail(steps), rec)
    ELSE PricesOf(Tail(steps), rec)

\* What run() does: the order above for the records, and the price updates
\* of a record in the order of its price_history list, less the points
\* with no price.
ReplayInListOrder ==
    /\ RecordsInOrder
    /\ \A k \in 1..Len(data) :
          LET sent == PricesOf(replayed, k)
              all == Priced(SortedData(data)[k].price_history)
          IN /\ Len(sent) <= Len(all)
             /\ sent = SubSeq(all, 1, Len(sent))
             /\ (cursor.at \in {"stop", "done"} \/ cursor.rec > k) => sent = all

-----------------------------------------------------------------------------
(* The risk layer: claims                                                  *)

\* The step is a call of update that has a drawdown to look at: the running
\* peak, this observation included, is above zero.
UpdateStep ==
    /\ bcall'.op = "update"
    /\ breaker'.peak_equity > 0

OnlyUpdateAndReset ==
    [][breaker'.state # breaker.state =>
         \/ bcall'.op = "update" /\ breaker'.peak_equity > 0
         \/ /\ bcall'.op = "reset"
            /\ breaker'.state = "ACTIVE"
            /\ breaker'.peak_equity = 0
            /\ breaker'.trip_count = breaker.trip_count]_vars

\* The open positions of the tracker at their current prices.
MarketValue(t) ==
    SumOver(DOMAIN t.positions,
            [k \in DOMAIN t.positions |->
               t.positions[k].quantity * t.positions[k].current_price_usd])

\* What the open positions of the tracker cost, at their entry prices.
CostBasis(t) ==
    SumOver(DOMAIN t.positions,
            [k \in DOMAIN t.positions |->
               t.positions[k].quantity * t.positions[k].entry_price_usd])

\* C17: the equity the tracker reports is the cash (the initial equity,
\* less the cost of every buy, plus the proceeds of every close) plus the
\* open positions at their current prices.
C17_MarkToMarket == Equity(tracker) = cash + MarketValue(tracker)

\* What the tracker reports: _equity is the cash, and the equity is the
\* cash plus the unrealised profit, that is the mark-to-market equity less
\* the cost of the open positions.
EquityLessCostBasis ==
    /\ tracker.equity = cash
    /\ Equity(tracker) = cash + MarketValue(tracker) - CostBasis(tracker)


-----------------------------------------------------------------------------
(* The engine: claims                                                      *)

\* The connect of c is over before the k-th entry of the history, with the
\* outcome of c's own connect().
ConnectOver(c, k) == \E j \in 1..(k - 1) : elog[j] = Did(IF c \in wiring.connect_fails THEN "connect_failed" ELSE "connected", c)

Before(k, op, who) == \E j \in 1..(k - 1) : elog[j] = Did(op, who)

OnStarts == SelectSeq(elog, LAMBDA e : e.op = "on_start")

\* C18: Engine.run launches the connect of every adapter and feed before it
\* waits for any of them, and waits until every one of them has returned or
\* raised, a connect that raises neither cancelling nor skipping another;
\* only then does it call on_start, strategy by strategy in registration
\* order, and only after the on_start of every strategy does it publish a
\* heartbeat.
C18_StartupOrder ==
    /\ \A k \in DOMAIN elog : elog[k].op \in {"connected", "connect_failed"} => \A c \in Components : Before(k, "connect_task", c)
    /\ \A k \in DOMAIN elog : elog[k].op = "on_start" => \A c \in Components : ConnectOver(c, k)
    /\ Len(OnStarts) <= Len(StrategyOrder)
    /\ \A i \in DOMAIN OnStarts : OnStarts[i].who = StrategyOrder[i]
    /\ \A k \in DOMAIN elog : elog[k].op = "heartbeat" => \A s \in EngineStrategies : Before(k, "on_start", s)

\* A connect has raised, another has returned after that, every strategy
\* has been started and a heartbeat has been published.
C18_Witness ==
    /\ \E i, j \in DOMAIN elog : i < j /\ elog[i].op = "connect_failed" /\ elog[j].op = "connected"
    /\ Len(OnStarts) = Len(StrategyOrder)
    /\ \E k \in DOMAIN elog : elog[k].op = "heartbeat"

\* C19: when stop() publishes engine-stop, it has called on_stop of every
\* strategy, and after that it has disconnected every adapter and every
\* feed.
C19_Shutdown ==
    \A k \in DOMAIN elog : elog[k].op = "engine_stop" =>
        /\ \A s \in EngineStrategies : Before(k, "on_stop", s)
        /\ \A c \in Components : \E j \in 1..(k - 1) :
              /\ elog[j] = Did("disconnect", c)
              /\ \A s \in EngineStrategies : Before(j, "on_stop", s)

\* What stop() does: on_stop of every strategy, whatever one of them
\* raises, then a disconnect of every component that fails before
\* disconnect() runs, then engine-stop.
StopWithoutDisconnect ==
    /\ \A k \in DOMAIN elog : elog[k].op = "engine_stop" =>
          /\ \A s \in EngineStrategies : Before(k, "on_stop", s)
          /\ \A c \in Components : Before(k, "disconnect_error", c)
    /\ \A c \in Components : engine.conn[c] # "disconnected"

Callbacks(s) == Len(SelectSeq(elog, LAMBDA e : e = Did("callback", s)))

\* C20: run() does not end with the exception of a strategy; once the
\* on_start loop is over every strategy has been started; every strategy
\* has received every event published, whatever the callbacks of the others
\* raised.
C20_StrategyIsolation ==
    /\ engine.pc # "raised"
    /\ engine.pc \notin {"new", "connect"} => \A s \in EngineStrategies : \E k \in DOMAIN elog : elog[k] = Did("on_start", s)
    /\ \A s \in EngineStrategies : Callbacks(s) = engine.events

\* The part that holds: an exception in an event callback stays in the bus.
CallbacksIsolated == \A s \in EngineStrategies : Callbacks(s) = engine.events

\* run() ends with an exception exactly when an on_start has raised, and
\* then no strategy registered after that one has been started.
OnStartStopsTheEngine ==
    engine.pc = "raised" =>
        /\ Len(OnStarts) >= 1
        /\ OnStarts[Len(OnStarts)].who \in wiring.bad_on_start
        /\ Len(SelectSeq(elog, LAMBDA e : e.op = "heartbeat")) = 0

-----------------------------------------------------------------------------
(* The scoring function: claims                                            *)

\* Every optional field of the event is zero.
AllUnknown(e) ==
    /\ e.buys_1h = 0 /\ e.sells_1h = 0
    /\ e.price_change_5m = 0 /\ e.price_change_1h = 0
    /\ e.top10_concentration = 0 /\ e.dev_holdings_pct = 0
    /\ e.sniper_count = 0 /\ e.holder_count = 0
    /\ e.market_cap_usd = 0 /\ e.liquidity_usd = 0
    /\ e.initial_price_usd = 0 /\ e.txns_24h = 0

\* C21: the event whose signals are all zero scores exactly 50, no
\* component having added or subtracted anything.
C21_ZeroBaseline ==
    (prior.op # "new" /\ AllUnknown(candidate)) =>
        /\ breakdown.total = 50
        /\ breakdown.momentum = 0 /\ breakdown.quality = 0
        /\ breakdown.liquidity = 0 /\ breakdown.activity = 0

\* What the code returns for it: 5 for a dev holding of zero, 3 for fewer
\* than five snipers, -15 for a liquidity of zero.
ZeroScores43 ==
    (prior.op # "new" /\ AllUnknown(candidate)) =>
        /\ breakdown.total = 43
        /\ breakdown.momentum = 0 /\ breakdown.quality = 8
        /\ breakdown.liquidity = -15 /\ breakdown.activity = 0

\* The 1-hour ratio of buys to sells is known: there has been a buy or a
\* sell.
FlowKnown(e) == e.buys_1h + e.sells_1h > 0

\* The ratio of buys to sells of b is above that of a (as fractions of the
\* total, so that no sells at all is the highest ratio).
RatioRaised(a, b) == a.buys_1h * (b.buys_1h + b.sells_1h) < b.buys_1h * (a.buys_1h + a.sells_1h)

FlowRaised == prior.op = "flow" /\ FlowKnown(prior.candidate) /\ FlowKnown(candidate) /\ RatioRaised(prior.candidate, candidate)

Top10Raised == prior.op = "top10" /\ candidate.top10_concentration > prior.candidate.top10_concentration

FlowRaisedScore == FlowRaised /\ breakdown.total > prior.breakdown.total

-----------------------------------------------------------------------------
(* The swap output: claims                                                 *)

\* C23: for a positive input amount, the output is 0 exactly when the
\* input reserve or the output reserve is 0.
C23_ZeroOutput ==
    (swap.calls > 0 /\ swap.last.amount_in > 0) =>
        (swap.last.out = 0 <=> (pool.reserve_in = 0 \/ pool.reserve_out = 0))

\* What the code returns: all of the output reserve when the input reserve
\* is 0 and the amount after the fee is not, and 0 on positive reserves
\* when the integer divisions round the output down to 0.
ZeroOutputOfTheCode ==
    (swap.calls > 0) =>
        LET after_fee == (swap.last.amount_in * (BpsScale - FeeBps)) \div BpsScale
        IN  /\ (pool.reserve_in = 0 /\ after_fee > 0) => swap.last.out = pool.reserve_out
            /\ swap.last.out = 0 <=>
                  (pool.reserve_in + after_fee = 0 \/ after_fee * pool.reserve_out < pool.reserve_in + after_fee)

PositiveReserves == pool.reserve_in > 0 /\ pool.reserve_out > 0

\* Two outputs of the same pool, the second for the larger amount.
LargerAmount == swap.calls > 1 /\ PositiveReserves /\ swap.before.amount_in < swap.last.amount_in

\* C24 as stated: on positive reserves the larger amount gets strictly
\* more output, and strictly less output per unit of input.
C24_StrictlyMonotone ==
    LargerAmount =>
        /\ swap.last.out > swap.before.out
        /\ swap.last.out * swap.before.amount_in < swap.before.out * swap.last.amount_in

\* C24 (amended): on positive reserves the larger amount never gets less
\* output; the output per unit of input is always below the pool price
\* less the fee, reserve_out / reserve_in * 399/400; and it is lower
\* for the larger amount as soon as the smaller one loses nothing to the
\* rounding of the fee and one unit is allowed for the rounding of its
\* output.
C24_Monotone ==
    /\ LargerAmount => swap.last.out >= swap.before.out
    /\ (swap.calls > 0 /\ PositiveReserves) =>
          swap.last.out * pool.reserve_in * (BpsScale \div FeeBps) < swap.last.amount_in * ((BpsScale - FeeBps) \div FeeBps) * pool.reserve_out
    /\ (LargerAmount /\ (swap.before.amount_in * (BpsScale - FeeBps)) % BpsScale = 0) =>
          swap.last.out * swap.before.amount_in < (swap.before.out + 1) * swap.last.amount_in

\* The larger amount has got more output, at a lower output per unit.
C24_Witness ==
    /\ LargerAmount
    /\ swap.last.out > swap.before.out
    /\ swap.before.out > 0
    /\ swap.last.out * swap.before.amount_in < swap.before.out * swap.last.amount_in

-----------------------------------------------------------------------------
(* The average fill price: claims                                          *)

\* avg_fill_price * filled_quantity, and the sum over the fills of price
\* times quantity, both in units of 1/PriceGrid.
VwapNotional == filling.avg_fill_price * filling.filled_quantity

FillsNotional == notional * PriceGrid

RECURSIVE Power(_, _)
Power(x, n) == IF n = 0 THEN 1 ELSE x * Power(x, n - 1)

\* C25 as stated: after the fills, avg_fill_price * filled_quantity is
\* the sum over the fills of price times quantity.
C25_VwapExact == Len(filling.fills) > 0 => VwapNotional = FillsNotional

\* C25 (amended): the two are equal to within the rounding of the three
\* float operations that stand between them for each fill: with n fills
\* recorded, each is at most (3/2)^n times the other, 3/2 being above
\* (1 + 2^-FloatBits)^3.
C25_Vwap ==
    LET n == Len(filling.fills)
    IN  n > 0 =>
          /\ VwapNotional * Power(2, n) <= FillsNotional * Power(3, n)
          /\ FillsNotional * Power(2, n) <= VwapNotional * Power(3, n)

\* Two fills at different prices, with an average that the division has
\* rounded.
C25_Witness ==
    /\ Len(filling.fills) >= 2
    /\ filling.fills[1].price # filling.fills[2].price
    /\ VwapNotional # FillsNotional

\* Where nothing is rounded the two are the same number.
VwapExactWithoutRounding ==
    (Len(filling.fills) = 2 /\ filling.fills[1].quantity = 1 /\ filling.fills[2].quantity = 1 /\ filling.fills[1].price + filling.fills[2].price \in {2, 4, 6, 8}) => VwapNotional = FillsNotional

-----------------------------------------------------------------------------
(* The trade journal: claims                                               *)

\* The trade recorded last, and the buys of its token that were open when
\* it arrived.
LastTrade == journal.trades[Len(journal.trades)]

OpenBefore == jbefore.open_buys[LastTrade.token]

\* b is the oldest of the buys in the list: none was recorded before it.
Oldest(b, buys) == \A i \in DOMAIN buys : b.timestamp_s <= buys[i].timestamp_s

SellWithoutBuy ==
    /\ Len(journal.trades) = 2
    /\ journal.trades[1].side = "buy" /\ journal.trades[1].token = "U"
    /\ journal.trades[2].side = "sell" /\ journal.trades[2].token = "T"
    /\ journal.round_trips = <<>>

-----------------------------------------------------------------------------
(* The backtest runner: a record without its mint                          *)

\* The graduation of the i-th record (in the order of the replay) has been
\* published.
Graduated(i) == \E k \in DOMAIN replayed : replayed[k].op = "graduation" /\ replayed[k].rec = i

\* C27: run() does not end on a record that lacks its mint; when it has
\* returned, it has replayed every record that has one and no other.
C27_SkipsBadRecord ==
    /\ cursor.at # "raised"
    /\ cursor.at = "done" =>
          /\ \A r \in Runs : runs[r].result # <<>>
          /\ \A i \in 1..Len(data) : Graduated(i) <=> SortedData(data)[i].mint # Missing

\* What run() does: it ends with the KeyError of the first such record,
\* with no result and the later records not replayed; it returns only when
\* every record has its mint.
RaisesOnBadRecord ==
    /\ cursor.at = "raised" =>
          /\ Current.mint = Missing
          /\ \A r \in Runs : runs[r].result = <<>>
          /\ \A i \in 1..Len(data) : Graduated(i) => i < cursor.rec
    /\ cursor.at = "done" => \A i \in 1..Len(data) : data[i].mint # Missing

-----------------------------------------------------------------------------
(* The live adapters: the attempts of an order submission                   *)

\* The events of one type published for intent i.
OrderEvents(type, i) == {k \in DOMAIN lbus : lbus[k].event_type = type /\ lbus[k].intent = i}

AllFailed(t) == \A k \in DOMAIN t.outcomes : ~t.outcomes[k]

\* C28: a submission makes at most max_retries attempts, none after one
\* that succeeded; an intent whose attempts all failed ends with exactly
\* one ORDER_REJECTED and no ORDER_FILLED (and never has more than that).
C28_Retries ==
    \A i \in DOMAIN tasks :
        LET t == tasks[i]
        IN /\ Len(t.outcomes) <= live.max_retries
           /\ \A k \in DOMAIN t.outcomes : t.outcomes[k] => k = Len(t.outcomes) /\ t.pc = "done"
           /\ AllFailed(t) =>
                 /\ OrderEvents("ORDER_FILLED", i) = {}
                 /\ Cardinality(OrderEvents("ORDER_REJECTED", i)) = IF t.pc = "done" THEN 1 ELSE 0
           /\ ~AllFailed(t) =>
                 /\ OrderEvents("ORDER_REJECTED", i) = {}
                 /\ Cardinality(OrderEvents("ORDER_FILLED", i)) = 1

\* One intent has used up three attempts and been rejected, another has
\* been filled at its second attempt.
C28_Witness ==
    /\ DOMAIN tasks = Intents
    /\ live.max_retries = 3
    /\ \E i, j \in Intents :
          /\ tasks[i].pc = "done" /\ tasks[i].outcomes = <<FALSE, FALSE, FALSE>>
          /\ Len(tasks[i].waits) = 2
          /\ Cardinality(OrderEvents("ORDER_REJECTED", i)) = 1
          /\ tasks[j].pc = "done" /\ tasks[j].outcomes = <<FALSE, TRUE>>
          /\ Cardinality(OrderEvents("ORDER_FILLED", j)) = 1

\* The sleeps between the attempts: one after every failed attempt but the
\* last, doubling in JupiterAdapter and growing by half a second in
\* PumpSwapAdapter.
BackoffWaits ==
    \A i \in DOMAIN tasks :
        /\ Len(tasks[i].waits) <= Max(0, live.max_retries - 1)
        /\ \A k \in DOMAIN tasks[i].waits :
              tasks[i].waits[k] = IF live.name = "jupiter" THEN Pow2(k) ELSE k

-----------------------------------------------------------------------------
(* The event bus: unsubscribing during a dispatch                           *)

\* How often h is in the sequence of handlers s.
Subscriptions(s, h) == Cardinality({i \in DOMAIN s : s[i] = h})

\* publish(ev) has just returned, and a handler of its kind was
\* unsubscribed while it ran.
JustReturnedDisturbed(ev) ==
    /\ log # <<>>
    /\ log[Len(log)].t = "return" /\ log[Len(log)].ev = ev
    /\ ~Undisturbed(ev)

\* C29: when publish(ev) returns after a dispatch during which a handler of
\* the kind was unsubscribed, every handler that is still subscribed to the
\* kind was called with ev, once for each subscription it still has (and no
\* handler more often than it was subscribed when publish was entered).
C29_UnsubscribeInDispatch ==
    \A ev \in Events :
        JustReturnedDisturbed(ev) =>
            \A h \in Handlers :
                /\ Subscriptions(Starts(ev), h) >= Subscriptions(handlers[log[Len(log)].kind], h)
                /\ Subscriptions(Starts(ev), h) <= Subscriptions(Snap(ev), h)

\* What the for loop over the live list does: every removal of the handler
\* being run moves the rest of the list one place down under the iterator,
\* so each unsubscription leaves out the handler that followed (the last
\* one has none to leave out), and nobody is called twice.
UnsubscribeSkipsTheNext ==
    \A ev \in Events :
        JustReturnedDisturbed(ev) =>
            LET removed == Cardinality({i \in DOMAIN log : log[i].t = "unsub" /\ log[i].ev = ev})
                skipped == Len(Snap(ev)) - Len(Starts(ev))
            IN /\ skipped \in {removed - 1, removed}
               /\ \A h \in Handlers : Subscriptions(Starts(ev), h) <= Subscriptions(Snap(ev), h)

-----------------------------------------------------------------------------
(* The paper adapter: the price of a sell made on a price update           *)

\* The step is the publication of a price update for a token, in answer to
\* which the strategy sold that token.
SellOnUpdateStep ==
    /\ published' # <<>>
    /\ published'[1].type = "PRICE_UPDATE"
    /\ \E i \in EventsOf(published', "ORDER_SUBMITTED") :
          /\ published'[i].side = "sell"
          /\ published'[i].token = published'[1].token

\* The quantity of the token the adapter sold in the step.
SoldInStep(token) == Get(paper.positions, token, 0) - Get(paper'.positions, token, 0)

\* C30: a sell that the strategy makes on a price update with price p is
\* filled at p: the balance grows by the quantity sold times p.
C30_SellAtUpdatePrice ==
    [][SellOnUpdateStep =>
         paper'.balance_usd = paper.balance_usd
                              + SoldInStep(published'[1].token) * published'[1].price_usd]_vars

\* What the adapter does: the strategy's handler runs before _track_price,
\* so the sell is filled at the price the adapter had before this update,
\* which it records only afterwards (nothing is credited if it had none).
SellAtEarlierPrice ==
    [][SellOnUpdateStep =>
         LET token == published'[1].token
         IN /\ paper'.balance_usd = paper.balance_usd
                                    + SoldInStep(token) * Get(paper.last_prices, token, 0)
            /\ paper'.last_prices[token] = published'[1].price_usd]_vars

-----------------------------------------------------------------------------
(* The sniper's positions and the paper adapter's ledger                    *)

\* The last publish was a graduation, and the adapter rejected the buy the
\* sniper made for it.
BuyRejected ==
    /\ published # <<>>
    /\ published[1].type = "SIGNAL"
    /\ published[1].signal = "graduation"
    /\ EventsOf(published, "ORDER_REJECTED") # {}

\* C31: between dispatches, the adapter's ledger holds a positive quantity
\* of every mint the sniper has a position in, and a graduation whose buy
\* the adapter rejected has left no position in the sniper.
C31_PositionsBacked ==
    /\ \A m \in DOMAIN sniper.positions : Get(paper.positions, m, 0) > 0
    /\ BuyRejected => published[1].mint \notin DOMAIN sniper.positions

\* The orders the adapter has filled are all those the sniper has made.
NoneRejected ==
    paper.fill_count = sniper.passed + SumOver(ExitReasons, sniper.exits)

\* What _on_graduation does: the position is stored before the buy is
\* published and stays whatever the adapter answers, and the graduation is
\* counted as passed. While none of its orders has been rejected, the
\* ledger holds some of every mint the sniper has a position in.
RejectedBuyKeepsPosition ==
    /\ BuyRejected =>
          /\ published[1].mint \in DOMAIN sniper.positions
          /\ sniper.passed >= 1
          /\ ~NoneRejected
    /\ NoneRejected => \A m \in DOMAIN sniper.positions : Get(paper.positions, m, 0) > 0

-----------------------------------------------------------------------------
(* The engine: nothing after engine-stop                                    *)

\* The places of the history where the engine published engine-stop.
EngineStops == {k \in DOMAIN elog : elog[k].op = "engine_stop"}

\* What the engine itself publishes.
EnginePublishes == {"engine_start", "heartbeat", "engine_stop"}

\* C32: once engine-stop is published the engine publishes no further
\* event; no heartbeat follows it.
C32_NothingAfterStop ==
    \A k \in EngineStops :
        \A j \in DOMAIN elog : j > k => elog[j].op \notin EnginePublishes

\* What the loop does: the test of self._running comes before the sleep
\* and the heartbeat after it, so a stop() made during the sleep is
\* followed by one heartbeat, and by no more; engine-stop is published
\* once.
OneHeartbeatAfterStop ==
    /\ Cardinality(EngineStops) <= 1
    /\ \A k \in EngineStops :
          /\ Cardinality({j \in DOMAIN elog : j > k /\ elog[j].op = "heartbeat"}) <= 1
          /\ \A j \in DOMAIN elog : j > k => elog[j].op \notin {"engine_start", "engine_stop"}

-----------------------------------------------------------------------------
(* The order book: the list of active ids                                   *)

\* The ids in _active_ids.
ActiveIds == {active_ids[i] : i \in DOMAIN active_ids}

\* The stored orders whose status is PENDING, SUBMITTED, ACCEPTED or
\* PARTIALLY_FILLED.
StoredActive == {id \in stored : IsActive(orders[id])}

\* C33: _active_ids holds, without duplicates, exactly the ids of the
\* stored orders that are active.
C33_ActiveIds ==
    /\ Cardinality(ActiveIds) = Len(active_ids)
    /\ ActiveIds = StoredActive

\* What the book keeps: every stored active order is in the list, and the
\* list has ids of stored orders only. An id is in it once for every
\* submit of its order since it was last taken out.
ActiveAreListed ==
    /\ StoredActive \subseteq ActiveIds
    /\ ActiveIds \subseteq stored

-----------------------------------------------------------------------------
(* FillSimulator: the trailing stop of a sell                               *)

\* The largest of the first k prices of s.
RECURSIVE RunningMax(_, _)
RunningMax(s, k) == IF k = 0 THEN 0 ELSE Max(s[k], RunningMax(s, k - 1))

\* The k-th price of s is below (at or below) the peak so far times
\* (1 - trail), for a trail in hundredths.
FallsBelow(s, k, trail) == s[k] * 100 < RunningMax(s, k) * (100 - trail)
AtOrBelow(s, k, trail) == s[k] * 100 <= RunningMax(s, k) * (100 - trail)

\* C34: the peak of an unfilled order is the running maximum of the prices
\* ticked for it; the order is unfilled as long as no price was below
\* peak * (1 - trail); it is filled by the first price below that level;
\* a filled order has no peak entry.
C34_TrailingStop ==
    \A id \in DOMAIN ticked.by :
        LET s == ticked.by[id]
            o == tsim.os[id]
        IN IF \E k \in DOMAIN s : FallsBelow(s, k, o.trail_offset_pct)
           THEN /\ o.status = "FILLED"
                /\ Len(o.fills) = 1
                /\ \A k \in DOMAIN s : FallsBelow(s, k, o.trail_offset_pct) <=> k = Len(s)
                /\ tsim.pk[id] = 0
           ELSE /\ o.status \in {"PENDING", "SUBMITTED"}
                /\ o.fills = <<>>
                /\ tsim.pk[id] = RunningMax(s, Len(s))

\* What _try_match does: the same with 'at or below': a price equal to
\* peak * (1 - trail) fills the order.
TrailingStopAtOrBelow ==
    \A id \in DOMAIN ticked.by :
        LET s == ticked.by[id]
            o == tsim.os[id]
        IN IF \E k \in DOMAIN s : AtOrBelow(s, k, o.trail_offset_pct)
           THEN /\ o.status = "FILLED"
                /\ Len(o.fills) = 1
                /\ \A k \in DOMAIN s : AtOrBelow(s, k, o.trail_offset_pct) <=> k = Len(s)
                /\ tsim.pk[id] = 0
           ELSE /\ o.status \in {"PENDING", "SUBMITTED"}
                /\ o.fills = <<>>
                /\ tsim.pk[id] = RunningMax(s, Len(s))

-----------------------------------------------------------------------------
(* The backtest runner: the maximum drawdown                                *)

\* Two fractions are the same number.
SameFraction(a, b) == a.num * b.den = b.num * a.den

\* C35: the max_drawdown of the result is the largest (peak - balance) /
\* peak over the balances seen after every published event, the peak being
\* their running maximum.
C35_DrawdownPerEvent ==
    cursor.at = "done" =>
        \A r \in Runs : SameFraction(runs[r].result.max_drawdown, runs[r].seen.drawdown)

\* What run() does: the balance is looked at once per record, after the
\* record's last price update, so the reported drawdown is never larger
\* than the one over every event, and the reported peak never higher.
DrawdownPerRecord ==
    \A r \in Runs :
        /\ runs[r].max_drawdown.num * runs[r].seen.drawdown.den
              <= runs[r].seen.drawdown.num * runs[r].max_drawdown.den
        /\ runs[r].peak_balance <= runs[r].seen.peak

-----------------------------------------------------------------------------
(* The order book: what cancel returns                                      *)

\* The step is a call of book.cancel(id).
CancelStep(id) == ret'.op = "cancel" /\ ret'.id = id

\* C36: cancel(id) returns True only if the order is stored and the call
\* has made it CANCELLED; for an id the book does not have, or an order
\* that is terminal, it returns False and changes nothing.
C36_CancelResult ==
    [][\A id \in OrderIds :
          CancelStep(id) =>
              /\ ret'.val = TRUE =>
                    /\ id \in stored
                    /\ orders[id].status # "CANCELLED"
                    /\ orders'[id].status = "CANCELLED"
              /\ (id \notin stored \/ orders[id].status \in TerminalStatuses) =>
                    /\ ret'.val = FALSE
                    /\ UNCHANGED <<orders, stored, active_ids>>]_vars

\* What cancel does: it returns True for every stored order, whatever its
\* status; an active order becomes CANCELLED, a terminal one keeps its
\* status; an unknown id gives False and changes nothing.
CancelReturnsFound ==
    [][\A id \in OrderIds :
          CancelStep(id) =>
              /\ ret'.val = (id \in stored)
              /\ UNCHANGED stored
              /\ id \in stored =>
                    orders'[id].status = IF IsActive(orders[id]) THEN "CANCELLED"
                                         ELSE orders[id].status
              /\ id \notin stored => UNCHANGED <<orders, active_ids>>]_vars

-----------------------------------------------------------------------------
(* The paper adapter: one outcome for every order                           *)

\* The outcome events of the adapter.
Outcomes(evs) == EventsOf(evs, "ORDER_FILLED") \cup EventsOf(evs, "ORDER_REJECTED")

\* C37: every ORDER_SUBMITTED event of a dispatch is followed at once,
\* inside its own publish, by one ORDER_FILLED or ORDER_REJECTED event of
\* the adapter for its token, and the adapter publishes no other outcome.
C37_OneOutcome ==
    /\ \A i \in EventsOf(published, "ORDER_SUBMITTED") :
          /\ i + 1 \in Outcomes(published)
          /\ published[i + 1].token_in = published[i].token
    /\ \A j \in Outcomes(published) : j - 1 \in EventsOf(published, "ORDER_SUBMITTED")

\* A graduation has made the sniper buy, the adapter has filled the buy
\* inside that dispatch, after an order that it refused.
C37_Witness ==
    /\ Len(published) = 3
    /\ published[1].type = "SIGNAL"
    /\ published[2].type = "ORDER_SUBMITTED" /\ published[2].side = "buy"
    /\ published[3].type = "ORDER_FILLED"
    /\ paper.fill_count = 1
    /\ tbus.event_count = 5
    /\ sniper.filtered = 0

-----------------------------------------------------------------------------
(* The sniper: entries, positions, exits and orders                         *)

\* The exits the sniper has counted, over all reasons.
ExitsCounted(sn) == SumOver(ExitReasons, sn.exits)

\* The orders of a side the sniper published in a dispatch: those made
\* inside the dispatch of another event.
SniperOrders(evs, side) ==
    {i \in EventsOf(evs, "ORDER_SUBMITTED") : i > 1 /\ evs[i].side = side}

\* C38: the entries made are the open positions plus the exits counted;
\* every step publishes one buy order for each entry it makes and one sell
\* order for each exit it counts.
C38_EntriesAndExits ==
    /\ [](sniper.passed = Cardinality(DOMAIN sniper.positions) + ExitsCounted(sniper))
    /\ [][/\ sniper'.passed - sniper.passed
               = Cardinality(SniperOrders(published', "buy"))
          /\ ExitsCounted(sniper') - ExitsCounted(sniper)
               = Cardinality(SniperOrders(published', "sell"))]_vars

\* Two entries, of which one position is open and one was left on a price
\* update, whose sell order is the last one published.
C38_Witness ==
    /\ sniper.passed = 2
    /\ Cardinality(DOMAIN sniper.positions) = 1
    /\ ExitsCounted(sniper) = 1
    /\ Len(published) = 3
    /\ published[1].type = "PRICE_UPDATE"
    /\ published[2].type = "ORDER_SUBMITTED" /\ published[2].side = "sell"

-----------------------------------------------------------------------------
(* The trade journal: the quantities of the round trips                     *)

\* The sum of the quantities of a sequence of trades or round trips.
RECURSIVE TotalQuantity(_)
TotalQuantity(s) == IF s = <<>> THEN 0 ELSE Head(s).quantity + TotalQuantity(Tail(s))

TradesOf(token, side) ==
    SelectSeq(journal.trades, LAMBDA t : t.token = token /\ t.side = side)

RoundTripsOf(token) == SelectSeq(journal.round_trips, LAMBDA r : r.token = token)

\* Every recorded buy of the token precedes every recorded sell of it.
BuysBeforeSells(token) ==
    \A i, k \in DOMAIN journal.trades :
        /\ journal.trades[i].token = token /\ journal.trades[i].side = "buy"
        /\ journal.trades[k].token = token /\ journal.trades[k].side = "sell"
        => i < k

\* C39: for a token whose buys all precede its sells, the round trips of
\* the token have, in total, the smaller of the quantity bought and the
\* quantity sold.
C39_MatchedQuantity ==
    \A token \in JournalTokens :
        BuysBeforeSells(token) =>
            TotalQuantity(RoundTripsOf(token))
                = Min(TotalQuantity(TradesOf(token, "buy")), TotalQuantity(TradesOf(token, "sell")))

\* The smaller quantity of the k-th buy and the k-th sell, summed over the
\* first n of them.
RECURSIVE PairedQuantity(_, _, _)
PairedQuantity(buys, sells, n) ==
    IF n = 0 THEN 0
    ELSE Min(buys[n].quantity, sells[n].quantity) + PairedQuantity(buys, sells, n - 1)

\* What _match_round_trip does: the k-th sell is matched with the k-th buy
\* as a whole, for the smaller of the two quantities; what is left of the
\* buy or of the sell is dropped, and the buy is no longer open.
MatchedOneToOne ==
    \A token \in JournalTokens :
        BuysBeforeSells(token) =>
            LET buys == TradesOf(token, "buy")
                sells == TradesOf(token, "sell")
                n == Min(Len(buys), Len(sells))
            IN /\ Len(RoundTripsOf(token)) = n
               /\ TotalQuantity(RoundTripsOf(token)) = PairedQuantity(buys, sells, n)
               /\ Len(journal.open_buys[token]) = Len(buys) - n

-----------------------------------------------------------------------------
(* score_graduation: the range of each component                           *)

Within(x, bound) == -bound <= x /\ x <= bound

\* C40: whatever the inputs, momentum stays within plus or minus 30,
\* quality within plus or minus 30, liquidity within plus or minus 25 and
\* activity within plus or minus 15.
C40_ComponentBounds ==
    /\ Within(breakdown.momentum, 30)
    /\ Within(breakdown.quality, 30)
    /\ Within(breakdown.liquidity, 25)
    /\ Within(breakdown.activity, 15)

\* The ranges the bands of the code add up to: the lowest bands of a
\* component together pass its bound on the negative side for momentum,
\* quality and liquidity; no component passes it on the positive side.
ComponentRanges ==
    /\ breakdown.momentum \in -35..30
    /\ breakdown.quality \in -55..18
    /\ breakdown.liquidity \in -35..10
    /\ breakdown.activity \in -10..10

\* The lower ends of the four ranges are the components of one scored
\* event, and the upper ends those of another.
AllLowest ==
    /\ breakdown.momentum = -35 /\ breakdown.quality = -55
    /\ breakdown.liquidity = -35 /\ breakdown.activity = -10
AllHighest ==
    /\ breakdown.momentum = 30 /\ breakdown.quality = 18
    /\ breakdown.liquidity = 10 /\ breakdown.activity = 10

=============================================================================
